---- MODULE Spec2Model ----
(***************************************************************************)
(* Verification model of the ddm segmented download engine: the SQLite     *)
(* job store (claim transaction), the global connection budget, the        *)
(* segment executor and the job lifecycle driven by the scheduler.         *)
(*                                                                         *)
(* The module holds several specifications over disjoint groups of         *)
(* variables; a specification leaves the groups it does not use at their   *)
(* idle values.                                                            *)
(***************************************************************************)
EXTENDS Integers, Naturals, Sequences, FiniteSets, TLC

VARIABLES
    \* ---- job store (resume_db) ----
    jobs,        \* the jobs table: id -> row (state "absent" = no row)
    lock,        \* SQLite file lock held by each connection
    tx,          \* per connection: position inside claim_next_queued_job
    claim_count, \* history: how many claim calls returned Some(id), per id
    \* ---- global connection budget ----
    max_total,   \* GlobalConnectionBudget.max_total
    in_use,      \* GlobalConnectionBudget.in_use (AtomicUsize)
    cfg_total,   \* DdmConfig.max_total_connections
    bjob,        \* per job task: position around reserve / executor / release
    \* ---- one job run (scheduler/run/shared.rs, scheduler/execute/mod.rs) ----
    run,         \* per scheduler task: position in run_one_job_shared and its locals
    abort,       \* per scheduler task: the abort token (AtomicBool) of its job
    ex,          \* per scheduler task: the executor's status, bitmap_copy and coalescing count
    chan,        \* per scheduler task: the bitmap progress channel (bounded mpsc)
    senders,     \* per scheduler task: live Sender handles of the progress channel
    fs,          \* per job id: the temp (.part) file and the final file
    force_restart, \* --force-restart of this scheduler invocation
    overwrite,   \* --overwrite of this scheduler invocation
    cmds,        \* history: number of external commands issued so far
    \* ---- the thread pool of run_concurrent (downloader/run.rs), per scheduler task ----
    work,        \* the shared VecDeque of segment indices
    worker,      \* per worker thread: position and the segment it holds
    results,     \* the std mpsc channel of (index, result)
    cons,        \* the result loop: to_receive, first_error, ...
    abort_requested, \* the internal abort flag
    abort_seen,  \* history: the abort token was set while the result loop had segments outstanding
    \* ---- the scheduler process, the control registry, segment transfers ----
    sched,       \* run_scheduler / run_jobs_parallel: position, run_count, the JoinSet
    control,     \* JobControl: the registry job id -> abort token, and its callers
    xfer,        \* per worker thread: one download_one_segment call and its writes
    \* ---- retry loop, host policy, pure functions ----
    retry,       \* per worker thread: run_with_retry around its transfers; the run's tally
    hostp,       \* HostPolicy: the entry of one host, the config bounds, a snapshot
    calc,        \* the arguments and the return value of a pure function being called
    pair,        \* one job run twice: as a single-job run and as a task of the parallel run
    \* ---- the multi backend, file names, the sequential scheduler, the policy hand-over ----
    mrun,        \* run_multi: pending, active, retry_after, the bitmap, first_error
    names,       \* per job task: position in the filename resolution, and the names stored
    seq,         \* the sequential loop of run_scheduler over repeated invocations
    hpol         \* run_jobs_parallel: the caller's host_policy and the shared temporary

dbVars     == <<jobs, lock, tx, claim_count>>
budgetVars == <<max_total, in_use, cfg_total, bjob>>
runVars    == <<run, abort, ex, chan, senders, fs, force_restart, overwrite, cmds>>
poolVars   == <<work, worker, results, cons, abort_requested, abort_seen>>
extraVars  == <<sched, control, xfer, retry, hostp, calc, pair, mrun, names, seq, hpol>>
moreVars   == <<retry, hostp, calc, pair, mrun, names, seq, hpol>>
lateVars   == <<mrun, names, seq, hpol>>
vars       == <<jobs, lock, tx, claim_count, max_total, in_use, cfg_total, bjob,
                run, abort, ex, chan, senders, fs, force_restart, overwrite, cmds,
                work, worker, results, cons, abort_requested, abort_seen,
                sched, control, xfer, retry, hostp, calc, pair, mrun, names, seq, hpol>>

Min(a, b) == IF a <= b THEN a ELSE b
Max(a, b) == IF a >= b THEN a ELSE b

(***************************************************************************)
(* Bounds                                                                  *)
(***************************************************************************)
MaxJobId   == 2    \* job ids 1..MaxJobId
NumConns   == 2    \* concurrent database connections calling claim
MaxCalls   == 2    \* claim calls per connection
MaxBudget  == 2    \* largest configured max_total_connections
NumBJobs   == 2    \* concurrently running jobs sharing the budget
BudgetSegs == 2    \* largest segment count of a job sharing the budget

JobIds == 1..MaxJobId
Conns  == 1..NumConns
BJobs  == 1..NumBJobs

\* the configured max_connections_per_host (no smaller than the largest total)
MaxPerHost == MaxBudget

(***************************************************************************)
(* Job store: rows and state strings (resume_db/types.rs)                  *)
(***************************************************************************)
JobState == {"queued", "running", "paused", "completed", "error"}

NULL == -1   \* SQL NULL / Option::None of a numeric column

\* a row of the jobs table; completed_bitmap is the set of segment indices whose bit is set
NoRow == [state |-> "absent", total_size |-> NULL, etag |-> NULL, last_modified |-> NULL,
          segment_count |-> 0, completed_bitmap |-> {}]
\* add_job: state queued, metadata NULL, segment_count 0, empty bitmap
QueuedRow == [NoRow EXCEPT !.state = "queued"]

\* add_job: INSERT a queued row
add_job(db, id) == [db EXCEPT ![id] = QueuedRow]

\* set_state: UPDATE jobs SET state = ? WHERE id = ? (no row: nothing changes)
set_state(db, id, s) ==
    IF db[id].state = "absent" THEN db
    ELSE [db EXCEPT ![id].state = s]

\* SELECT id FROM jobs WHERE state = 'queued' ORDER BY id ASC LIMIT 1
QueuedIds(db) == {i \in JobIds : db[i].state = "queued"}
NextQueued(db) ==
    IF QueuedIds(db) = {} THEN 0
    ELSE CHOOSE i \in QueuedIds(db) : \A k \in QueuedIds(db) : i <= k

(***************************************************************************)
(* SQLite locking of a deferred transaction (rollback journal):            *)
(*   a read takes SHARED and keeps it until the transaction ends;          *)
(*   a write needs RESERVED, which only one connection may hold;           *)
(*   a commit of a write needs EXCLUSIVE, i.e. no other SHARED holder.     *)
(***************************************************************************)
NoOtherReserved(c) == \A d \in Conns \ {c} : lock[d] # "reserved"
NoOtherReader(c)   == \A d \in Conns \ {c} : lock[d] = "unlocked"

\* the lock a connection holds after the SELECT inside the transaction
LockAfterSelectNone == "unlocked"
LockAfterSelect == "shared"

IdleTx == [pc |-> "idle", sel |-> 0, calls |-> 0, result |-> "none"]

\* pool.begin(): BEGIN (deferred, no lock yet)
ClaimBegin(c) ==
    /\ tx[c].pc = "idle"
    /\ tx[c].calls < MaxCalls
    /\ tx' = [tx EXCEPT ![c].pc = "begun", ![c].calls = @ + 1,
                        ![c].sel = 0, ![c].result = "none"]
    /\ UNCHANGED <<jobs, lock, claim_count>>

\* SELECT ... LIMIT 1 inside the transaction
ClaimSelect(c) ==
    /\ tx[c].pc = "begun"
    /\ lock' = [lock EXCEPT ![c] = LockAfterSelect]
    /\ tx' = [tx EXCEPT ![c].sel = NextQueued(jobs),
                        ![c].pc = IF NextQueued(jobs) = 0 THEN "none_found"
                                  ELSE "selected"]
    /\ UNCHANGED <<jobs, claim_count>>

\* no queued row: commit and return Ok(None)
ClaimNone(c) ==
    /\ tx[c].pc = "none_found"
    /\ lock' = [lock EXCEPT ![c] = "unlocked"]
    /\ tx' = [tx EXCEPT ![c].pc = "idle", ![c].result = "ok_none"]
    /\ UNCHANGED <<jobs, claim_count>>

\* UPDATE jobs SET state = 'running' WHERE id = ?: needs the RESERVED lock
ClaimUpdate(c) ==
    /\ tx[c].pc = "selected"
    /\ NoOtherReserved(c)
    /\ lock' = [lock EXCEPT ![c] = "reserved"]
    /\ tx' = [tx EXCEPT ![c].pc = "updated"]
    /\ UNCHANGED <<jobs, claim_count>>

\* UPDATE fails with SQLITE_BUSY: `?` returns Err, the dropped transaction rolls back
ClaimUpdateBusy(c) ==
    /\ tx[c].pc = "selected"
    /\ ~NoOtherReserved(c)
    /\ lock' = [lock EXCEPT ![c] = "unlocked"]
    /\ tx' = [tx EXCEPT ![c].pc = "idle", ![c].result = "err"]
    /\ UNCHANGED <<jobs, claim_count>>

\* tx.commit(): the row becomes Running; return Ok(Some(id))
ClaimCommit(c) ==
    /\ tx[c].pc = "updated"
    /\ NoOtherReader(c)
    /\ jobs' = set_state(jobs, tx[c].sel, "running")
    /\ lock' = [lock EXCEPT ![c] = "unlocked"]
    /\ tx' = [tx EXCEPT ![c].pc = "idle", ![c].result = "ok_some"]
    /\ claim_count' = [claim_count EXCEPT ![tx[c].sel] = @ + 1]

\* commit times out waiting for readers (busy_timeout): Err, rolled back
ClaimCommitBusy(c) ==
    /\ tx[c].pc = "updated"
    /\ ~NoOtherReader(c)
    /\ lock' = [lock EXCEPT ![c] = "unlocked"]
    /\ tx' = [tx EXCEPT ![c].pc = "idle", ![c].result = "err"]
    /\ UNCHANGED <<jobs, claim_count>>

\* `ddm add`: a single autocommit INSERT; waits until no other lock is held
AddJob(id) ==
    /\ jobs[id].state = "absent"
    /\ \A k \in JobIds : k < id => jobs[k].state # "absent"
    /\ \A d \in Conns : lock[d] = "unlocked"
    /\ jobs' = add_job(jobs, id)
    /\ UNCHANGED <<lock, tx, claim_count>>

InitDb ==
    /\ jobs \in {[i \in JobIds |-> IF i <= n THEN QueuedRow ELSE NoRow] : n \in 1..MaxJobId}
    /\ lock = [c \in Conns |-> "unlocked"]
    /\ tx = [c \in Conns |-> IdleTx]
    /\ claim_count = [i \in JobIds |-> 0]

IdleDb ==
    /\ jobs = [i \in JobIds |-> NoRow]
    /\ lock = [c \in Conns |-> "unlocked"]
    /\ tx = [c \in Conns |-> IdleTx]
    /\ claim_count = [i \in JobIds |-> 0]

(***************************************************************************)
(* Global connection budget (scheduler/budget.rs) and its use by a job     *)
(* (scheduler/execute/mod.rs, run_download.rs, downloader/run.rs)          *)
(***************************************************************************)
UsizeMod == 2 ^ 16   \* usize arithmetic wraps; 16 bits keep the wrap visible

\* GlobalConnectionBudget::new: max_total.max(1)
BudgetNew(cfgTotal) == Max(cfgTotal, 1)

\* reserve: take = requested.min(available).min(max_total)
ReserveTakeAll(requested, current) == requested
ReserveTake(requested, current) ==
    LET available == IF max_total >= current THEN max_total - current ELSE 0
    IN  Min(Min(requested, available), max_total)

\* run_download_blocking: max_concurrent.max(1); run_concurrent: max_concurrent.min(count)
NumWorkers(granted, count) == Min(Max(granted, 1), count)

IdleBJob == [pc |-> "idle", segs |-> 0, requested |-> 0, current |-> 0,
             reserved |-> 0, loaded |-> 0, left |-> 0, active |-> 0]

\* execute_download_phase: max_concurrent = per_host.min(max_total_connections).min(segment_count)
BStart(j, segs, perHost) ==
    /\ bjob[j].pc = "idle"
    /\ bjob' = [bjob EXCEPT ![j] = [IdleBJob EXCEPT
                  !.pc = "reserve_load", !.segs = segs, !.left = segs,
                  !.requested = Min(Min(perHost, cfg_total), segs)]]
    /\ UNCHANGED <<max_total, in_use, cfg_total>>

\* reserve: let mut current = in_use.load()
ReserveLoad(j) ==
    /\ bjob[j].pc = "reserve_load"
    /\ bjob' = [bjob EXCEPT ![j].current = in_use, ![j].pc = "reserve_cas"]
    /\ UNCHANGED <<max_total, in_use, cfg_total>>

\* reserve: compare_exchange_weak(current, current + take)
ReserveCas(j) ==
    /\ bjob[j].pc = "reserve_cas"
    /\ LET take == ReserveTake(bjob[j].requested, bjob[j].current)
       IN IF in_use = bjob[j].current
          THEN /\ in_use' = (in_use + take) % UsizeMod
               /\ bjob' = [bjob EXCEPT ![j].reserved = take, ![j].current = 0,
                                       ![j].pc = "run"]
          ELSE /\ in_use' = in_use
               /\ bjob' = [bjob EXCEPT ![j].current = in_use]
    /\ UNCHANGED <<max_total, cfg_total>>

\* a worker of the job's executor starts a segment transfer
StartTransfer(j) ==
    /\ bjob[j].pc = "run"
    /\ bjob[j].left > 0
    /\ bjob[j].active < NumWorkers(bjob[j].reserved, bjob[j].segs)
    /\ bjob' = [bjob EXCEPT ![j].active = @ + 1, ![j].left = @ - 1]
    /\ UNCHANGED <<max_total, in_use, cfg_total>>

\* a segment transfer ends
FinishTransfer(j) ==
    /\ bjob[j].pc = "run"
    /\ bjob[j].active > 0
    /\ bjob' = [bjob EXCEPT ![j].active = @ - 1]
    /\ UNCHANGED <<max_total, in_use, cfg_total>>

\* the executor has returned; execute_download_phase returns, dropping BudgetGuard
ExecutorExit(j) ==
    /\ bjob[j].pc = "run"
    /\ bjob[j].active = 0
    /\ bjob' = [bjob EXCEPT ![j].pc = "release_load"]
    /\ UNCHANGED <<max_total, in_use, cfg_total>>

\* the job's task is cancelled at an await of execute_download_phase (its JoinSet is
\* dropped): the future is dropped and with it BudgetGuard; the blocking download
\* thread is not stopped by that, so transfers may be in flight during the release
\* (with none in flight the step is that of ExecutorExit)
TaskCancelled(j) ==
    /\ bjob[j].pc = "run"
    /\ bjob[j].active > 0
    /\ bjob' = [bjob EXCEPT ![j].pc = "release_load", ![j].left = 0]
    /\ UNCHANGED <<max_total, in_use, cfg_total>>

\* release: the inner in_use.load()
ReleaseLoad(j) ==
    /\ bjob[j].pc = "release_load"
    /\ bjob' = [bjob EXCEPT ![j].loaded = in_use, ![j].pc = "release_sub"]
    /\ UNCHANGED <<max_total, in_use, cfg_total>>

\* release: n.min(self.in_use.load())
ReleaseAmountNone(n, loaded) == 0
ReleaseAmount(n, loaded) == Min(n, loaded)

\* release: in_use.fetch_sub(n.min(loaded))
ReleaseSub(j) ==
    /\ bjob[j].pc = "release_sub"
    /\ in_use' = (in_use - ReleaseAmount(bjob[j].reserved, bjob[j].loaded) + UsizeMod)
                  % UsizeMod
    /\ bjob' = [bjob EXCEPT ![j] = [IdleBJob EXCEPT !.pc = "done"]]
    /\ UNCHANGED <<max_total, cfg_total>>

InitBudget ==
    /\ cfg_total \in 1..MaxBudget
    /\ max_total = BudgetNew(cfg_total)
    /\ in_use = 0
    /\ bjob = [j \in BJobs |-> IdleBJob]

IdleBudget ==
    /\ cfg_total = 0
    /\ max_total = 1
    /\ in_use = 0
    /\ bjob = [j \in BJobs |-> IdleBJob]

(***************************************************************************)
(* Segment bitmap (segmenter/bitmap.rs), as the set of indices whose bit   *)
(* is set                                                                  *)
(***************************************************************************)
BitmapNew(n) == {}
set_completed(bm, i) == bm \cup {i}
is_completed(bm, i) == i \in bm
\* to_bytes / from_bytes keep the first ceil(n/8) bytes
to_bytes(bm, n) == {i \in bm : i < 8 * ((n + 7) \div 8)}
from_bytes(bytes, n) == {i \in bytes : i < 8 * ((n + 7) \div 8)}
all_completedAlways(bm, n) == TRUE
all_completed(bm, n) == \A i \in 0..(n - 1) : i \in bm

(***************************************************************************)
(* One job run: the download phase (execute_download_phase) and the        *)
(* error handling of run_one_job_shared                                    *)
(***************************************************************************)
NumRunners == 2    \* scheduler tasks / processes running jobs
NumThreads == 2    \* worker threads of one executor
ExecSegs   == 3    \* segment count of the job in the executor specification
LongSegs   == 17   \* segment count of the job in the long-run specification
JobSegs    == 1    \* configured min_segments = max_segments in the job specification
MaxCmds    == 1    \* external commands (pause, resume, remove, scheduler start)
MaxCrashes == 1    \* crashes of the scheduler process
QueueLen   == 2    \* queued jobs when the scheduler process first starts
MaxRequests == 1   \* pause/cancel lines received on the control socket
ChunkMax   == 2    \* most bytes curl hands to one call of the write callback
MaxTotalSize == 9     \* largest total_size handed to plan_segments
MaxSegmentCount == 5  \* largest segment_count handed to plan_segments
MaxLoopAttempts == 2  \* largest max_attempts of a policy whose retry loop is run
MaxAttempt == 10      \* largest attempt number handed to RetryPolicy::decide
MaxThrottled == 12    \* throttling events recorded for the host in all
MaxRestarts == 1      \* times `ddm run` is started again with the saved host policy
ChanCap    == 8    \* tokio::sync::mpsc::channel::<Vec<u8>>(8)
COALESCE_PROGRESS_EVERY == 2

Runners == 1..NumRunners
Threads == 1..NumThreads

NoHead  == [status |-> "none", accept_ranges |-> FALSE, content_length |-> NULL,
            etag |-> NULL, last_modified |-> NULL]
IdleRun == [pc |-> "idle", id |-> 0, job |-> NoRow, head |-> NoHead,
            needs_metadata |-> FALSE, bitmap |-> {}, result |-> "none", log |-> <<>>]
\* the task has returned `result`; its locals are gone
Returned(rec, result) ==
    [IdleRun EXCEPT !.pc = "done", !.id = rec.id, !.result = result, !.log = rec.log]
IdleEx  == [status |-> "off", bitmap |-> {}, since_send |-> 0]
NoFile  == [temp |-> FALSE, temp_data |-> {}, temp_durable |-> FALSE,
            final |-> FALSE, final_data |-> {}]

\* Sender::try_send: the message is dropped when the channel is full
try_sendUnbounded(q, msg) == Append(q, msg)
try_send(q, msg) == IF Len(q) < ChanCap THEN Append(q, msg) ELSE q

\* StorageWriter::write_at of all bytes of segment i into the temp file
write_segment(f, i) == [f EXCEPT !.temp_data = @ \cup {i}, !.temp_durable = FALSE]
\* StorageWriter::sync: sync_all
storage_syncNothing(f) == f
storage_sync(f) == [f EXCEPT !.temp_durable = TRUE]
\* StorageWriter::finalize: rename temp -> final
storage_finalize(f) == [f EXCEPT !.temp = FALSE, !.temp_data = {}, !.temp_durable = FALSE,
                                 !.final = TRUE, !.final_data = f.temp_data]

\* update_bitmap: UPDATE jobs SET completed_bitmap = ? WHERE id = ?
update_bitmap(db, id, bytes) ==
    IF db[id].state = "absent" THEN db
    ELSE [db EXCEPT ![id].completed_bitmap = bytes]

\* update_metadata: UPDATE jobs SET total_size, etag, segment_count, completed_bitmap ...
update_metadata(db, id, meta) ==
    IF db[id].state = "absent" THEN db
    ELSE [db EXCEPT ![id].total_size = meta.total_size, ![id].etag = meta.etag,
                    ![id].last_modified = meta.last_modified,
                    ![id].segment_count = meta.segment_count,
                    ![id].completed_bitmap = meta.completed_bitmap]

\* the result loop after a result was handled: the trailing flush of run_concurrent
FlushTrailing(r, e, q) ==
    IF e.since_send > 0 THEN try_send(q, to_bytes(e.bitmap, run[r].job.segment_count)) ELSE q

IdleWorker == [pc |-> "exited", seg |-> 0]
IdleCons   == [pc |-> "off", to_receive |-> 0, first_error |-> "none"]

\* the number of segments plan_segments returns: none for an empty file
PlannedCount(total_size, segment_count) ==
    IF total_size = 0 \/ segment_count = 0 THEN 0 ELSE segment_count

\* execute_download_phase l.104-151: open the progress channel, spawn the progress
\* worker and the blocking executor on bitmap_copy (run_download_blocking,
\* download_segments, run_concurrent up to the spawn of the worker threads)
XSpawn(r, maxConcurrent) ==
    /\ run[r].pc = "x_spawn"
    /\ chan[r] = <<>>
    /\ LET n == run[r].job.segment_count
           planned == PlannedCount(run[r].job.total_size, n)
           incomplete == {i \in 0..(planned - 1) : ~is_completed(run[r].bitmap, i)}
           count == Cardinality(incomplete)
           numWorkers == Min(maxConcurrent, count)
       IN /\ run' = [run EXCEPT ![r].pc = "x_wait"]
          /\ chan' = [chan EXCEPT ![r] = <<>>]
          /\ abort_requested' = [abort_requested EXCEPT ![r] = FALSE]
          /\ abort_seen' = [abort_seen EXCEPT ![r] = FALSE]
          /\ results' = [results EXCEPT ![r] = <<>>]
          /\ IF count = 0
             THEN \* download_segments: nothing incomplete, return Ok at once
                  /\ ex' = [ex EXCEPT ![r] = [status |-> "ok", bitmap |-> run[r].bitmap,
                                              since_send |-> 0]]
                  /\ senders' = [senders EXCEPT ![r] = {"phase"}]
                  /\ UNCHANGED <<work, worker, cons>>
             ELSE /\ ex' = [ex EXCEPT ![r] = [status |-> "running", bitmap |-> run[r].bitmap,
                                              since_send |-> 0]]
                  /\ senders' = [senders EXCEPT ![r] = {"phase", "executor"}]
                  /\ work' = [work EXCEPT ![r] =
                                [k \in 1..count |->
                                    CHOOSE i \in incomplete :
                                        Cardinality({m \in incomplete : m < i}) = k - 1]]
                  /\ worker' = [worker EXCEPT ![r] =
                                  [w \in Threads |->
                                      [pc |-> IF w <= numWorkers THEN "loop" ELSE "exited",
                                       seg |-> 0]]]
                  /\ cons' = [cons EXCEPT ![r] = [pc |-> "loop", to_receive |-> count,
                                                  first_error |-> "none"]]
    /\ UNCHANGED <<jobs, abort, fs, force_restart, overwrite, cmds, cmds>>

\* worker thread, top of the loop: leave on either abort flag or an empty queue,
\* otherwise pop the next segment
WorkerTake(r, w) ==
    /\ worker[r][w].pc = "loop"
    /\ IF abort_requested[r] \/ abort[r] \/ work[r] = <<>>
       THEN /\ worker' = [worker EXCEPT ![r][w].pc = "exited"]
            /\ work' = work
       ELSE /\ worker' = [worker EXCEPT ![r][w].pc = "busy", ![r][w].seg = Head(work[r])]
            /\ work' = [work EXCEPT ![r] = Tail(work[r])]
    /\ UNCHANGED <<results, cons, abort_requested, abort_seen>>
    /\ UNCHANGED runVars
    /\ UNCHANGED jobs

\* the file a transfer of job `id` writes into: the open handle follows a rename
write_to_storage(f, i) ==
    IF f.temp THEN write_segment(f, i)
    ELSE IF f.final THEN [f EXCEPT !.final_data = @ \cup {i}]
    ELSE f

\* worker thread: run_with_retry(download_one_segment) ends with `res`
\* (ok: every byte of the segment was written), and the result is sent
SegOutcomes == {"ok", "retryable", "other"}
WorkerFinish(r, w, res) ==
    /\ worker[r][w].pc = "busy"
    /\ results' = [results EXCEPT ![r] = Append(@, [index |-> worker[r][w].seg, res |-> res])]
    /\ worker' = [worker EXCEPT ![r][w] = [pc |-> "loop", seg |-> 0]]
    /\ fs' = IF res = "ok"
             THEN [fs EXCEPT ![run[r].id] = write_to_storage(@, worker[r][w].seg)]
             ELSE fs
    /\ UNCHANGED <<work, cons, abort_requested, abort_seen>>
    /\ UNCHANGED <<run, abort, ex, chan, senders, force_restart, overwrite, cmds, jobs>>

AllWorkersExited(r) == \A w \in Threads : worker[r][w].pc = "exited"

\* the abort check at the end of one iteration of the result loop
AbortCheckNever(token) == FALSE
AbortCheck(token) == token

\* l.116-123: the queue is emptied under its lock and the entries are counted
drained_entries_none(q) == 0
drained_entries(q) == Len(q)

\* result loop of run_concurrent: one iteration (recv, handle, abort check)
ConsRecv(r) ==
    /\ cons[r].pc = "loop"
    /\ cons[r].to_receive > 0
    /\ results[r] # <<>>
    /\ LET msg == Head(results[r])
           n == run[r].job.segment_count
           toRecv == cons[r].to_receive - 1
           okBitmap == set_completed(ex[r].bitmap, msg.index)
           sendNow == ex[r].since_send + 1 >= COALESCE_PROGRESS_EVERY
           eOk == [ex[r] EXCEPT !.bitmap = okBitmap,
                                !.since_send = IF sendNow THEN 0 ELSE @ + 1]
           qOk == IF sendNow THEN try_send(chan[r], to_bytes(okBitmap, n)) ELSE chan[r]
           e1 == IF msg.res = "ok" THEN eOk ELSE ex[r]
           q1 == IF msg.res = "ok" THEN qOk ELSE chan[r]
           drained == IF msg.res = "other" THEN drained_entries(work[r]) ELSE 0
           toRecv1 == IF toRecv >= drained THEN toRecv - drained ELSE 0
           err1 == IF msg.res # "ok" /\ cons[r].first_error = "none" THEN "segment"
                   ELSE cons[r].first_error
           err2 == IF AbortCheck(abort[r]) /\ err1 = "none" THEN "aborted" ELSE err1
       IN /\ results' = [results EXCEPT ![r] = Tail(results[r])]
          /\ work' = IF msg.res = "other" THEN [work EXCEPT ![r] = <<>>] ELSE work
          /\ abort_requested' = [abort_requested EXCEPT ![r] = (@ \/ msg.res = "other")]
          /\ IF AbortCheck(abort[r]) \/ toRecv1 = 0
             THEN /\ cons' = [cons EXCEPT ![r] = [pc |-> "join", first_error |-> err2,
                                                  to_receive |-> toRecv1]]
                  /\ ex' = [ex EXCEPT ![r] = e1]
                  /\ chan' = [chan EXCEPT ![r] = FlushTrailing(r, e1, q1)]
             ELSE /\ cons' = [cons EXCEPT ![r].first_error = err1,
                                          ![r].to_receive = toRecv1]
                  /\ ex' = [ex EXCEPT ![r] = e1]
                  /\ chan' = [chan EXCEPT ![r] = q1]
    /\ UNCHANGED <<worker, abort_seen>>
    /\ UNCHANGED <<run, abort, senders, fs, force_restart, overwrite, cmds, cmds, jobs>>

\* result loop: rx.recv() fails because every worker has dropped its sender
ConsRecvClosed(r) ==
    /\ cons[r].pc = "loop"
    /\ cons[r].to_receive > 0
    /\ results[r] = <<>>
    /\ AllWorkersExited(r)
    /\ cons' = [cons EXCEPT ![r].pc = "join", ![r].first_error = "closed"]
    /\ chan' = [chan EXCEPT ![r] = FlushTrailing(r, ex[r], chan[r])]
    /\ UNCHANGED <<work, worker, results, abort_requested, abort_seen>>
    /\ UNCHANGED <<run, abort, ex, senders, fs, force_restart, overwrite, cmds, cmds, jobs>>

\* run_concurrent joins the workers and returns first_error or Ok; the blocking
\* closure ends and drops its Sender
ConsJoin(r) ==
    /\ cons[r].pc = "join"
    /\ AllWorkersExited(r)
    /\ cons' = [cons EXCEPT ![r].pc = "returned"]
    /\ ex' = [ex EXCEPT ![r].status =
                 CASE cons[r].first_error = "none" -> "ok"
                   [] cons[r].first_error = "aborted" -> "aborted"
                   [] OTHER -> "err"]
    /\ senders' = [senders EXCEPT ![r] = @ \ {"executor"}]
    /\ UNCHANGED <<work, worker, results, abort_requested, abort_seen>>
    /\ UNCHANGED <<run, abort, chan, fs, force_restart, overwrite, cmds, cmds, jobs>>

\* run_progress_persistence_loop: receive one bitmap blob and persist it
ProgressPersist(r) ==
    /\ chan[r] # <<>>
    /\ jobs' = update_bitmap(jobs, run[r].id, Head(chan[r]))
    /\ chan' = [chan EXCEPT ![r] = Tail(chan[r])]
    /\ UNCHANGED <<run, abort, ex, senders, fs, force_restart, overwrite, cmds>>

\* the progress worker has seen the channel closed and empty, and has ended
ProgressEnded(r) == senders[r] = {} /\ chan[r] = <<>>

\* JobControl::request_abort for the job of task r: token.store(true)
RequestAbort(r) ==
    /\ run[r].pc \notin {"idle", "done"}
    /\ ~abort[r]
    /\ abort' = [abort EXCEPT ![r] = TRUE]
    /\ abort_seen' = [abort_seen EXCEPT ![r] = (run[r].pc = "x_wait" /\ cons[r].pc = "loop")]
    /\ UNCHANGED <<work, worker, results, cons, abort_requested>>
    /\ UNCHANGED <<run, ex, chan, senders, fs, force_restart, overwrite, cmds, cmds, jobs>>

\* where execute_download_phase continues once the executor returned Ok
PcAfterExecutorOkNoSync == "x_update_metadata"
PcAfterExecutorOk == "x_sync"

\* execute_download_phase l.153-167: the blocking executor has returned
XJoined(r) ==
    /\ run[r].pc = "x_wait"
    /\ ex[r].status \in {"ok", "aborted", "err"}
    /\ senders' = [senders EXCEPT ![r] = @ \ {"phase"}]
    /\ run' = [run EXCEPT
                 ![r].pc = CASE ex[r].status = "aborted" -> "x_paused"
                             [] ex[r].status = "err" -> "set_error"
                             [] OTHER -> PcAfterExecutorOk,
                 ![r].bitmap = IF ex[r].status = "ok" THEN ex[r].bitmap ELSE @]
    /\ UNCHANGED <<jobs, abort, ex, chan, fs, force_restart, overwrite, cmds>>

\* l.157-161: the progress worker is awaited, then set_state(Paused); return Ok
XPaused(r) ==
    /\ run[r].pc = "x_paused"
    /\ ProgressEnded(r)
    /\ jobs' = set_state(jobs, run[r].id, "paused")
    /\ run' = [run EXCEPT ![r] = Returned(run[r], "ok")]
    /\ UNCHANGED <<abort, ex, chan, senders, fs, force_restart, overwrite, cmds>>

\* l.169-196: the progress worker is awaited, the outcome recorded, storage synced
XSync(r) ==
    /\ run[r].pc = "x_sync"
    /\ ProgressEnded(r)
    /\ fs' = [fs EXCEPT ![run[r].id] = storage_sync(@)]
    /\ run' = [run EXCEPT ![r].pc = "x_update_metadata", ![r].log = Append(@, "sync")]
    /\ UNCHANGED <<jobs, abort, ex, chan, senders, force_restart, overwrite, cmds>>

\* l.198-209: update_metadata with the final bitmap; without full completion return Ok
XUpdateMetadata(r) ==
    /\ run[r].pc = "x_update_metadata"
    /\ LET n == run[r].job.segment_count
           meta == [total_size |-> run[r].job.total_size, etag |-> run[r].job.etag,
                    last_modified |-> run[r].job.last_modified,
                    segment_count |-> n, completed_bitmap |-> to_bytes(run[r].bitmap, n)]
       IN /\ jobs' = update_metadata(jobs, run[r].id, meta)
          /\ run' = IF all_completed(run[r].bitmap, n)
                    THEN [run EXCEPT ![r].pc = "x_finalize"]
                    ELSE [run EXCEPT ![r] = Returned(run[r], "ok")]
    /\ UNCHANGED <<abort, ex, chan, senders, fs, force_restart, overwrite, cmds>>

\* l.210: finalize (rename); a missing temp file makes the rename fail
XFinalize(r) ==
    /\ run[r].pc = "x_finalize"
    /\ IF fs[run[r].id].temp
       THEN /\ fs' = [fs EXCEPT ![run[r].id] = storage_finalize(@)]
            /\ run' = [run EXCEPT ![r].pc = "x_set_completed",
                                  ![r].log = Append(@, "finalize")]
       ELSE /\ fs' = fs
            /\ run' = [run EXCEPT ![r].pc = "set_error"]
    /\ UNCHANGED <<jobs, abort, ex, chan, senders, force_restart, overwrite, cmds>>

\* l.211-215: set_state(Completed); return Ok
XSetCompleted(r) ==
    /\ run[r].pc = "x_set_completed"
    /\ jobs' = set_state(jobs, run[r].id, "completed")
    /\ run' = [run EXCEPT ![r] = Returned([run[r] EXCEPT !.log = Append(@, "completed")], "ok")]
    /\ UNCHANGED <<abort, ex, chan, senders, fs, force_restart, overwrite, cmds>>

\* run_one_job_shared l.179-182: the download phase returned Err: set_state(Error)
SetError(r) ==
    /\ run[r].pc = "set_error"
    /\ jobs' = set_state(jobs, run[r].id, "error")
    /\ run' = [run EXCEPT ![r] = Returned(run[r], "err")]
    /\ UNCHANGED <<abort, ex, chan, senders, fs, force_restart, overwrite, cmds>>

(***************************************************************************)
(* Single-stream download phase (scheduler/execute/single.rs) and the end  *)
(* of run_single_stream (scheduler/run/fallback.rs)                        *)
(***************************************************************************)
\* l.24-35: remove an existing temp file, create it anew
SCreate(r) ==
    /\ run[r].pc = "s_create"
    /\ fs' = [fs EXCEPT ![run[r].id] = [@ EXCEPT !.temp = TRUE, !.temp_data = {},
                                                 !.temp_durable = FALSE]]
    /\ run' = [run EXCEPT ![r].pc = "s_download"]
    /\ UNCHANGED <<jobs, abort, ex, chan, senders, force_restart, overwrite, cmds>>

\* l.37-46: download_single streams the body into the temp file, or fails
SDownload(r, res) ==
    /\ run[r].pc = "s_download"
    /\ IF res = "ok"
       THEN /\ fs' = [fs EXCEPT ![run[r].id] = write_to_storage(@, 0)]
            /\ run' = [run EXCEPT ![r].pc = "s_sync"]
       ELSE /\ fs' = fs
            /\ run' = [run EXCEPT ![r] = Returned(run[r], "err")]
    /\ UNCHANGED <<jobs, abort, ex, chan, senders, force_restart, overwrite, cmds>>

\* l.48: storage_writer.sync()
SSync(r) ==
    /\ run[r].pc = "s_sync"
    /\ fs' = [fs EXCEPT ![run[r].id] = storage_sync(@)]
    /\ run' = [run EXCEPT ![r].pc = "s_finalize", ![r].log = Append(@, "sync")]
    /\ UNCHANGED <<jobs, abort, ex, chan, senders, force_restart, overwrite, cmds>>

\* l.49: storage_writer.finalize(final_path)
SFinalize(r) ==
    /\ run[r].pc = "s_finalize"
    /\ IF fs[run[r].id].temp
       THEN /\ fs' = [fs EXCEPT ![run[r].id] = storage_finalize(@)]
            /\ run' = [run EXCEPT ![r].pc = "s_set_completed",
                                  ![r].log = Append(@, "finalize")]
       ELSE /\ fs' = fs
            /\ run' = [run EXCEPT ![r] = Returned(run[r], "err")]
    /\ UNCHANGED <<jobs, abort, ex, chan, senders, force_restart, overwrite, cmds>>

\* l.50: set_state(Completed)
SSetCompleted(r) ==
    /\ run[r].pc = "s_set_completed"
    /\ jobs' = set_state(jobs, run[r].id, "completed")
    /\ run' = [run EXCEPT ![r].pc = "s_return", ![r].log = Append(@, "completed")]
    /\ UNCHANGED <<abort, ex, chan, senders, fs, force_restart, overwrite, cmds>>

\* run_single_stream l.73-86: store the size when it was unknown; return Ok
SReturn(r) ==
    /\ run[r].pc = "s_return"
    /\ jobs' = IF run[r].job.total_size = NULL
               THEN update_metadata(jobs, run[r].id,
                        [total_size |-> 1, etag |-> run[r].head.etag,
                         last_modified |-> run[r].head.last_modified,
                         segment_count |-> 0, completed_bitmap |-> {}])
               ELSE jobs
    /\ run' = [run EXCEPT ![r] = Returned(run[r], "ok")]
    /\ UNCHANGED <<abort, ex, chan, senders, fs, force_restart, overwrite, cmds>>

(***************************************************************************)
(* run_jobs_parallel and the head of run_one_job_shared                    *)
(***************************************************************************)
\* choose_segment_count with min_segments = max_segments = JobSegs
cfg_min_segments == JobSegs
cfg_max_segments == JobSegs
\* choose_segment_count l.16-23 for the bounds of a DdmConfig
ClampSegmentCountNoSize(total_size, min_segments, max_segments, adaptive) ==
    Max(Min(Max(adaptive, min_segments), max_segments), 1)
ClampSegmentCount(total_size, min_segments, max_segments, adaptive) ==
    LET n == Max(Min(Max(adaptive, min_segments), max_segments), 1)
    IN  IF total_size = 0 THEN n ELSE Min(n, total_size)
choose_segment_count(total_size, adaptive) ==
    ClampSegmentCount(total_size, cfg_min_segments, cfg_max_segments, adaptive)

\* the size the server reports for the file of a job
FileSize == 2 * JobSegs

\* what fetch_head::probe can return
GoodHead(e) == [status |-> "ok", accept_ranges |-> TRUE, content_length |-> FileSize,
                etag |-> e, last_modified |-> 1]
HeadResults ==
    {GoodHead(1), GoodHead(2),
     [NoHead EXCEPT !.status = "fail"],
     [GoodHead(1) EXCEPT !.accept_ranges = FALSE],
     [GoodHead(1) EXCEPT !.content_length = NULL]}

\* validate_for_resume: Ok when nothing is stored, else ETag, Last-Modified and size
\* must match; a value on one side only (NULL on the other) counts as changed
validate_for_resumeSizeOnly(job, head) ==
    job.total_size = NULL \/ job.total_size = head.content_length
validate_for_resume(job, head) ==
    LET has_stored == job.total_size # NULL \/ job.etag # NULL \/ job.last_modified # NULL
        etag_changed == job.etag # head.etag
        last_modified_changed == job.last_modified # head.last_modified
        size_changed == job.total_size # head.content_length
    IN  ~has_stored \/ ~(etag_changed \/ last_modified_changed \/ size_changed)

\* run_jobs_parallel l.47-73: claim the next queued job and spawn its task
ClaimJob(r) ==
    /\ run[r].pc = "idle"
    /\ NextQueued(jobs) # 0
    /\ jobs' = set_state(jobs, NextQueued(jobs), "running")
    /\ run' = [run EXCEPT ![r] = [IdleRun EXCEPT !.pc = "get_job", !.id = NextQueued(jobs)]]
    /\ UNCHANGED <<abort, ex, chan, senders, fs, force_restart, overwrite, cmds>>

\* run_jobs_parallel l.80-84: join_next takes the result of a finished task (taken
\* here once a progress worker left behind by a failed run has drained its channel)
JoinNext(r) ==
    /\ run[r].pc = "done"
    /\ chan[r] = <<>>
    /\ run' = [run EXCEPT ![r] = IdleRun]
    /\ ex' = [ex EXCEPT ![r] = IdleEx]
    /\ work' = [work EXCEPT ![r] = <<>>]
    /\ worker' = [worker EXCEPT ![r] = [w \in Threads |-> IdleWorker]]
    /\ results' = [results EXCEPT ![r] = <<>>]
    /\ cons' = [cons EXCEPT ![r] = IdleCons]
    /\ abort_requested' = [abort_requested EXCEPT ![r] = FALSE]
    /\ abort_seen' = [abort_seen EXCEPT ![r] = FALSE]
    /\ UNCHANGED <<jobs, abort, chan, senders, fs, force_restart, overwrite, cmds>>

\* run_one_job_shared l.36-39: get_job, "job not found" when there is no row
GetJob(r) ==
    /\ run[r].pc = "get_job"
    /\ run' = IF jobs[run[r].id].state = "absent"
              THEN [run EXCEPT ![r] = Returned(run[r], "err")]
              ELSE [run EXCEPT ![r].pc = "probe", ![r].job = jobs[run[r].id]]
    /\ UNCHANGED <<jobs, abort, ex, chan, senders, fs, force_restart, overwrite, cmds>>

\* l.48-108: probe, Range and length checks, validation, needs_metadata
Probe(r, head) ==
    /\ run[r].pc = "probe"
    /\ LET job == run[r].job
           valid == validate_for_resume(job, head)
           failed == \/ head.status = "fail"
                     \/ ~head.accept_ranges
                     \/ head.content_length = NULL
                     \/ (~valid /\ ~force_restart)
           needs == job.total_size = NULL \/ force_restart \/ ~valid
       IN run' = IF failed
                 THEN [run EXCEPT ![r] = Returned(run[r], "err")]
                 ELSE [run EXCEPT ![r].pc = IF needs THEN "meta_write" ELSE "check_final",
                                  ![r].head = head,
                                  ![r].needs_metadata = needs,
                                  ![r].bitmap = from_bytes(job.completed_bitmap,
                                                           job.segment_count)]
    /\ UNCHANGED <<jobs, abort, ex, chan, senders, fs, force_restart, overwrite, cmds>>

\* l.110-122: update_metadata with the planned segment count and an empty bitmap
MetaWrite(r) ==
    /\ run[r].pc = "meta_write"
    /\ LET total == run[r].head.content_length
           n == choose_segment_count(total, JobSegs)
           meta == [total_size |-> total, etag |-> run[r].head.etag,
                    last_modified |-> run[r].head.last_modified, segment_count |-> n,
                    completed_bitmap |-> to_bytes(BitmapNew(n), n)]
       IN jobs' = update_metadata(jobs, run[r].id, meta)
    /\ run' = [run EXCEPT ![r].pc = "meta_read"]
    /\ UNCHANGED <<abort, ex, chan, senders, fs, force_restart, overwrite, cmds>>

\* l.123-130: get_job again (expect: the task panics when the row is gone),
\* bitmap from the stored bytes
MetaRead(r) ==
    /\ run[r].pc = "meta_read"
    /\ run' = IF jobs[run[r].id].state = "absent"
              THEN [run EXCEPT ![r] = Returned(run[r], "err")]
              ELSE [run EXCEPT ![r].pc = "check_final", ![r].job = jobs[run[r].id],
                               ![r].bitmap = from_bytes(jobs[run[r].id].completed_bitmap,
                                                        jobs[run[r].id].segment_count)]
    /\ UNCHANGED <<jobs, abort, ex, chan, senders, fs, force_restart, overwrite, cmds>>

\* l.149-154: refuse to replace an existing final file without --overwrite
CheckFinal(r) ==
    /\ run[r].pc = "check_final"
    /\ run' = IF fs[run[r].id].final /\ ~overwrite
              THEN [run EXCEPT ![r] = Returned(run[r], "err")]
              ELSE [run EXCEPT ![r].pc = "set_running"]
    /\ UNCHANGED <<jobs, abort, ex, chan, senders, fs, force_restart, overwrite, cmds>>

\* l.156: set_state(Running)
SetRunning(r) ==
    /\ run[r].pc = "set_running"
    /\ jobs' = set_state(jobs, run[r].id, "running")
    /\ run' = [run EXCEPT ![r].pc = "x_open"]
    /\ UNCHANGED <<abort, ex, chan, senders, fs, force_restart, overwrite, cmds>>

\* execute_download_phase l.54-69: drop the temp file on a restart, then open the
\* existing temp file or create and preallocate a new one
XOpen(r) ==
    /\ run[r].pc = "x_open"
    /\ LET f == fs[run[r].id]
           g == IF run[r].needs_metadata /\ f.temp
                THEN [f EXCEPT !.temp = FALSE, !.temp_data = {}, !.temp_durable = FALSE]
                ELSE f
       IN fs' = [fs EXCEPT ![run[r].id] =
                    IF g.temp THEN g
                    ELSE [g EXCEPT !.temp = TRUE, !.temp_data = {}, !.temp_durable = FALSE]]
    /\ run' = [run EXCEPT ![r].pc = "x_spawn"]
    /\ UNCHANGED <<jobs, abort, ex, chan, senders, force_restart, overwrite, cmds>>

(***************************************************************************)
(* External commands (ddm-cli)                                             *)
(***************************************************************************)
\* `ddm pause <id>`: set_state(Paused), whatever the state is
Pause(id) ==
    /\ cmds < MaxCmds
    /\ cmds' = cmds + 1
    /\ jobs' = set_state(jobs, id, "paused")
    /\ UNCHANGED <<run, abort, ex, chan, senders, fs, force_restart, overwrite>>

\* `ddm resume <id>`: set_state(Queued), whatever the state is
Resume(id) ==
    /\ cmds < MaxCmds
    /\ cmds' = cmds + 1
    /\ jobs' = set_state(jobs, id, "queued")
    /\ UNCHANGED <<run, abort, ex, chan, senders, fs, force_restart, overwrite>>

\* `ddm remove <id> [--delete-files]`: delete the files, then the row
Remove(id, delete_files) ==
    /\ cmds < MaxCmds
    /\ cmds' = cmds + 1
    /\ jobs[id].state # "absent"
    /\ fs' = IF delete_files THEN [fs EXCEPT ![id] = NoFile] ELSE fs
    /\ jobs' = [jobs EXCEPT ![id] = NoRow]
    /\ UNCHANGED <<run, abort, ex, chan, senders, force_restart, overwrite>>

\* a `ddm run` starts: recover_running_jobs sets every Running row back to Queued
recover_running_jobsNone(db) == db
recover_running_jobs(db) ==
    [i \in JobIds |-> IF db[i].state = "running" THEN [db[i] EXCEPT !.state = "queued"]
                      ELSE db[i]]
Recover ==
    /\ cmds < MaxCmds
    /\ cmds' = cmds + 1
    /\ jobs' = recover_running_jobs(jobs)
    /\ UNCHANGED <<run, abort, ex, chan, senders, fs, force_restart, overwrite>>

\* run_scheduler not started: no JoinSet, nothing counted
IdleSched == [pc |-> "off", max_concurrent |-> 0, run_count |-> 0, spawned |-> 0,
              recovered |-> 0,
              join_set |-> {}, crashes |-> 0, stale |-> {}]
\* JobControl::new: an empty registry (0: no entry); no task holds a token
IdleControl == [jobs |-> [i \in JobIds |-> 0], held |-> [r \in Runners |-> FALSE],
                requests |-> 0, last |-> 0]
\* no download_one_segment call in progress
IdleTransfer == [pc |-> "idle", backend |-> "easy", status |-> NULL, crange |-> "none",
                 check |-> "none", bytes_written |-> 0, body_left |-> 0,
                 failed |-> FALSE, curl |-> "none", result |-> "none", writes |-> {}]
\* no retry loop, no host policy and no pure call in this specification
IdleLate ==
    /\ mrun = NULL
    /\ names = NULL
    /\ seq = NULL
    /\ hpol = NULL

IdleMore ==
    /\ retry = NULL
    /\ hostp = NULL
    /\ calc = NULL
    /\ pair = NULL
    /\ IdleLate
IdleExtra ==
    /\ sched = IdleSched
    /\ control = IdleControl
    /\ xfer = [w \in Threads |-> IdleTransfer]
    /\ IdleMore

IdleRunVars ==
    /\ run = [r \in Runners |-> IdleRun]
    /\ abort = [r \in Runners |-> FALSE]
    /\ ex = [r \in Runners |-> IdleEx]
    /\ chan = [r \in Runners |-> <<>>]
    /\ senders = [r \in Runners |-> {}]
    /\ fs = [i \in JobIds |-> NoFile]
    /\ force_restart = FALSE
    /\ overwrite = FALSE
    /\ cmds = 0

IdlePool ==
    /\ work = [r \in Runners |-> <<>>]
    /\ worker = [r \in Runners |-> [w \in Threads |-> IdleWorker]]
    /\ results = [r \in Runners |-> <<>>]
    /\ cons = [r \in Runners |-> IdleCons]
    /\ abort_requested = [r \in Runners |-> FALSE]
    /\ abort_seen = [r \in Runners |-> FALSE]

\* the state in which task 1 enters the download phase of job 1: the row is Running,
\* carries its metadata and the bitmap of an earlier run, and the temp file is open
ExecRow(n, done) == [state |-> "running", total_size |-> n, etag |-> 1,
                     last_modified |-> 1,
                     segment_count |-> n, completed_bitmap |-> done]
InitDownloadPhase(n, done, pc) ==
    /\ jobs = [i \in JobIds |-> IF i = 1 THEN ExecRow(n, done) ELSE NoRow]
    /\ lock = [c \in Conns |-> "unlocked"]
    /\ tx = [c \in Conns |-> IdleTx]
    /\ claim_count = [i \in JobIds |-> 0]
    /\ run = [r \in Runners |-> IF r = 1
                THEN [IdleRun EXCEPT !.pc = pc, !.id = 1, !.job = ExecRow(n, done),
                                     !.bitmap = from_bytes(done, n)]
                ELSE IdleRun]
    /\ abort = [r \in Runners |-> FALSE]
    /\ ex = [r \in Runners |-> IdleEx]
    /\ chan = [r \in Runners |-> <<>>]
    /\ senders = [r \in Runners |-> {}]
    /\ fs = [i \in JobIds |-> IF i = 1
                THEN [NoFile EXCEPT !.temp = TRUE, !.temp_data = done,
                                    !.temp_durable = TRUE]
                ELSE NoFile]
    /\ force_restart = FALSE
    /\ overwrite = FALSE
    /\ cmds = 0
    /\ IdlePool
    /\ IdleExtra

(***************************************************************************)
(* The scheduler process: run_scheduler (ddm-cli run.rs) and the loop of   *)
(* run_jobs_parallel with --jobs = NumRunners                              *)
(***************************************************************************)
\* the process is inside the loop of run_jobs_parallel
SchedUp == sched.pc \in {"fill", "wait"}

\* run_scheduler l.23-26: recover_running_jobs, which returns the rows it reset
SchedRecover ==
    /\ sched.pc = "start"
    /\ jobs' = recover_running_jobs(jobs)
    /\ sched' = [sched EXCEPT !.pc = "fill", !.run_count = 0, !.spawned = 0,
                               !.join_set = {},
                               !.recovered = Cardinality({i \in JobIds :
                                                            jobs[i].state = "running"}),
                               !.stale = {i \in @ : jobs'[i].state = "running"}]
    /\ UNCHANGED <<run, abort, ex, chan, senders, fs, force_restart, overwrite, cmds>>

\* run_jobs_parallel l.47-73: the JoinSet has room and a job was claimed: spawn its task
SchedClaim(r) ==
    /\ sched.pc = "fill"
    /\ Cardinality(sched.join_set) < sched.max_concurrent
    /\ r \notin sched.join_set
    /\ \A q \in Runners : q < r => q \in sched.join_set
    /\ ClaimJob(r)
    /\ sched' = [sched EXCEPT !.join_set = @ \cup {r}, !.spawned = @ + 1]

\* l.47-78: the JoinSet is full or claim returned None; an empty JoinSet ends the
\* loop and run_jobs_parallel returns Ok(run_count)
SchedFillEnd ==
    /\ sched.pc = "fill"
    /\ Cardinality(sched.join_set) >= sched.max_concurrent \/ NextQueued(jobs) = 0
    /\ sched' = [sched EXCEPT !.pc = IF sched.join_set = {} THEN "ok" ELSE "wait"]
    /\ UNCHANGED <<jobs, run, abort, ex, chan, senders, fs, force_restart, overwrite, cmds>>

\* l.80-84: join_next yields a finished task; run_count += 1; its Err is returned
\* at once by `??`, which drops the JoinSet and so aborts the tasks still in it
SchedJoin(r) ==
    /\ sched.pc = "wait"
    /\ r \in sched.join_set
    /\ JoinNext(r)
    /\ sched' = [sched EXCEPT !.join_set = @ \ {r}, !.run_count = @ + 1,
                               !.pc = IF run[r].result = "err" THEN "err" ELSE "fill"]

\* the process is killed: its tasks, threads and channels are gone, the jobs table
\* and the files stay; the next `ddm run` starts
Crash ==
    /\ SchedUp
    /\ sched.crashes < MaxCrashes
    /\ sched' = [IdleSched EXCEPT !.pc = "start", !.crashes = sched.crashes + 1,
                                   !.max_concurrent = sched.max_concurrent,
                                   !.stale = {i \in JobIds : jobs[i].state = "running"}]
    /\ run' = [r \in Runners |-> IdleRun]
    /\ abort' = [r \in Runners |-> FALSE]
    /\ ex' = [r \in Runners |-> IdleEx]
    /\ chan' = [r \in Runners |-> <<>>]
    /\ senders' = [r \in Runners |-> {}]
    /\ work' = [r \in Runners |-> <<>>]
    /\ worker' = [r \in Runners |-> [w \in Threads |-> IdleWorker]]
    /\ results' = [r \in Runners |-> <<>>]
    /\ cons' = [r \in Runners |-> IdleCons]
    /\ abort_requested' = [r \in Runners |-> FALSE]
    /\ abort_seen' = [r \in Runners |-> FALSE]
    /\ UNCHANGED <<jobs, fs, force_restart, overwrite, cmds>>

(***************************************************************************)
(* One segment transfer (downloader/segment.rs, downloader/multi): thread  *)
(* w fetches segment w of the plan; xfer[w].writes are the file offsets    *)
(* its write_at calls have written                                         *)
(***************************************************************************)
\* plan_segments l.45: the length of segment i (0-based)
SegmentLengthEven(i, base, remainder) == base
SegmentLength(i, base, remainder) == base + (IF i < remainder THEN 1 ELSE 0)

\* plan_segments: the loop from segment i at `offset`
RECURSIVE PlanFrom(_, _, _, _, _)
PlanFrom(i, offset, total_size, segment_count, out) ==
    IF i >= segment_count THEN out
    ELSE LET base == total_size \div segment_count
             remainder == total_size % segment_count
             len == SegmentLength(i, base, remainder)
             end == Min(offset + len, total_size)
         IN  PlanFrom(i + 1, end, total_size, segment_count,
                      Append(out, [start |-> offset, end |-> end]))

plan_segments(total_size, segment_count) ==
    IF total_size = 0 \/ segment_count = 0 THEN <<>>
    ELSE PlanFrom(0, 0, total_size, segment_count, <<>>)

\* Segment::len
SegLen(seg) == IF seg.end >= seg.start THEN seg.end - seg.start ELSE 0

\* the file of the transfers and its plan: one segment per thread
SegTotal == 2 * NumThreads + 1
SegPlan == plan_segments(SegTotal, NumThreads)

\* what the server can answer to the range request for a segment of `len` bytes:
\* status, Content-Range (that of the request, another one, or no such header) and
\* the length of the body
Responses(len) ==
    {[status |-> 206, crange |-> "exact", body |-> b] : b \in {0, len - 1, len, len + 1}}
    \cup {[status |-> 206, crange |-> c, body |-> len] : c \in {"other", "none"}}
    \cup {[status |-> 206, crange |-> "none", body |-> 0]}
    \cup {[status |-> 200, crange |-> c, body |-> len] : c \in {"exact", "none"}}
    \cup {[status |-> st, crange |-> "none", body |-> 0] : st \in {200, 204, 404}}
    \cup {[status |-> 404, crange |-> "none", body |-> len]}

\* the first call of the write callback: status == Some(206) && content_ok
RangeCheckOkAnyStatus(status, crange) == crange = "exact"
RangeCheckOk(status, crange) == status = 206 /\ crange = "exact"

\* download_one_segment l.139-156: the checks after perform() returned Ok
SegmentResultEasy(code, crange, received, expected) ==
    IF code < 200 \/ code >= 300 THEN "Http"
    ELSE IF code # 206 THEN "InvalidRangeResponse"
    ELSE IF crange = "other" THEN "InvalidRangeResponse"
    ELSE IF received # expected THEN "PartialTransfer"
    ELSE "ok"

\* multi/result.rs, whatever the outcome curl reported for the transfer
segment_result_from_easy(code, received, expected) ==
    IF code < 200 \/ code >= 300 THEN "Http"
    ELSE IF code # 206 THEN "InvalidRangeResponse"
    ELSE IF received # expected THEN "PartialTransfer"
    ELSE "ok"

\* the response headers have arrived (header_function / Handler::header)
Respond(w, resp) ==
    /\ xfer[w].pc = "idle"
    /\ xfer' = [xfer EXCEPT ![w].pc = "body", ![w].status = resp.status,
                             ![w].crange = resp.crange, ![w].body_left = resp.body]

\* one call of the write callback with the next chunk of the body (write_function
\* l.95-123, Handler::write l.58-86); write_ok: StorageWriter::write_at succeeds
WriteCallback(w, write_ok) ==
    /\ xfer[w].pc = "body"
    /\ xfer[w].body_left > 0
    /\ LET t == xfer[w]
           seg == SegPlan[w]
           n == Min(t.body_left, ChunkMax)
           check == IF t.check # "none" THEN t.check
                    ELSE IF RangeCheckOk(t.status, t.crange) THEN "ok" ELSE "err"
           offset == seg.start + t.bytes_written
           multi_result(received) == segment_result_from_easy(t.status, received, SegLen(seg))
       IN xfer' = [xfer EXCEPT ![w] =
            IF check = "err"
            THEN \* the callback returns Ok(0): perform fails with a write error
                 [t EXCEPT !.check = check, !.pc = "done",
                           !.result = IF t.backend = "easy" THEN "InvalidRangeResponse"
                                      ELSE multi_result(t.bytes_written)]
            ELSE IF write_ok
            THEN [t EXCEPT !.check = check, !.bytes_written = @ + n, !.body_left = @ - n,
                           !.writes = @ \cup (offset..(offset + n - 1))]
            ELSE \* write_at failed: Ok(0); the easy callback has already counted the chunk
                 [t EXCEPT !.check = check, !.pc = "done", !.failed = TRUE,
                           !.bytes_written = IF t.backend = "easy" THEN @ + n ELSE @,
                           !.result = IF t.backend = "easy" THEN "Storage"
                                      ELSE multi_result(t.bytes_written)]]

\* the body has ended and perform() returned Ok
BodyEnd(w) ==
    /\ xfer[w].pc = "body"
    /\ xfer[w].body_left = 0
    /\ LET t == xfer[w]
           len == SegLen(SegPlan[w])
       IN xfer' = [xfer EXCEPT ![w].pc = "done",
                     ![w].result = IF t.backend = "easy"
                                   THEN SegmentResultEasy(t.status, t.crange,
                                                          t.bytes_written, len)
                                   ELSE segment_result_from_easy(t.status,
                                                                 t.bytes_written, len)]

\* the connection breaks before the body has ended: perform() fails with an error
\* that is not a write error (segment.rs l.135); the multi backend builds the
\* result from the response code and the handler all the same
CurlErrors == {"operation_timedout", "recv_error", "partial_file"}
TransportError(w, e) ==
    /\ xfer[w].pc = "body"
    /\ xfer[w].body_left > 0
    /\ LET t == xfer[w]
       IN xfer' = [xfer EXCEPT ![w].pc = "done", ![w].body_left = 0, ![w].curl = e,
                     ![w].result = IF t.backend = "easy" THEN "Curl"
                                   ELSE segment_result_from_easy(t.status, t.bytes_written,
                                                                 SegLen(SegPlan[w]))]

(***************************************************************************)
(* Control signaling (control.rs): the registry job id -> abort token. A   *)
(* token is named by the task that created it; abort[r] is its value.      *)
(***************************************************************************)
\* JobControl::register at the start of a job's run: a fresh token, inserted under
\* the job id (HashMap::insert replaces an entry the id already has)
RegisterJob(r) ==
    /\ run[r].pc = "get_job"
    /\ ~control.held[r]
    /\ control' = [control EXCEPT !.jobs[run[r].id] = r, !.held[r] = TRUE]
    /\ abort' = [abort EXCEPT ![r] = FALSE]
    /\ UNCHANGED <<jobs, run, ex, chan, senders, fs, force_restart, overwrite, cmds>>

\* JobControl::unregister when the run of the job has ended: remove(&job_id)
UnregisterJob(r) ==
    /\ run[r].pc = "done"
    /\ control.held[r]
    /\ control' = [control EXCEPT !.jobs[run[r].id] = 0, !.held[r] = FALSE]
    /\ UNCHANGED <<jobs, run, abort, ex, chan, senders, fs, force_restart, overwrite, cmds>>

\* control socket line `pause <id>` / `cancel <id>`: JobControl::request_abort(id)
ControlRequestAbort(id) ==
    /\ control.requests < MaxRequests
    /\ control' = [control EXCEPT !.requests = @ + 1, !.last = id]
    /\ LET t == control.jobs[id]
       IN /\ abort' = IF t # 0 THEN [abort EXCEPT ![t] = TRUE] ELSE abort
          /\ abort_seen' = IF t # 0 /\ ~abort[t]
                           THEN [abort_seen EXCEPT ![t] = (run[t].pc = "x_wait"
                                                           /\ cons[t].pc = "loop")]
                           ELSE abort_seen
    /\ UNCHANGED <<work, worker, results, cons, abort_requested>>
    /\ UNCHANGED <<jobs, run, ex, chan, senders, fs, force_restart, overwrite, cmds>>

(***************************************************************************)
(* Retry policy (retry/policy.rs); delays in milliseconds                  *)
(***************************************************************************)
ErrorKinds == {"Timeout", "Throttled", "Connection", "Http5xx", "Other"}

RECURSIVE Pow2(_)
Pow2(n) == IF n = 0 THEN 1 ELSE 2 * Pow2(n - 1)

\* RetryPolicy::default
DefaultRetryPolicy == [max_attempts |-> 5, base_delay |-> 250, max_delay |-> 30000]

\* decide l.71: 1u32.saturating_mul(1 << attempt.saturating_sub(1).min(8))
BackoffExp(attempt) == Pow2(Min(IF attempt >= 1 THEN attempt - 1 ELSE 0, 8))

NoRetry == [retry |-> FALSE, delay |-> 0]
RetryAfter(d) == [retry |-> TRUE, delay |-> d]

decide(policy, attempt, kind) ==
    IF attempt >= policy.max_attempts THEN NoRetry
    ELSE IF kind = "Other" THEN NoRetry
    ELSE RetryAfter(Min(policy.base_delay * BackoffExp(attempt), policy.max_delay))

\* classify_http_status
classify_http_status(code) ==
    IF code \in {429, 503} THEN "Throttled"
    ELSE IF code >= 500 /\ code <= 599 THEN "Http5xx"
    ELSE "Other"

\* classify_curl_error
classify_curl_error(e) ==
    IF e = "operation_timedout" THEN "Timeout"
    ELSE IF e \in {"couldnt_connect", "recv_error"} THEN "Connection"
    ELSE "Other"

\* classify for the variants of SegmentError that retry/classify.rs does not list
classify_protocol_error(result) ==
    IF result = "PartialTransfer" THEN "Connection" ELSE "Other"

\* classify: the kind of the SegmentError a transfer ended with
classify(t) ==
    IF t.result = "Curl" THEN classify_curl_error(t.curl)
    ELSE IF t.result = "Http" THEN classify_http_status(t.status)
    ELSE classify_protocol_error(t.result)

\* the segment of the run's only incomplete segment is fetched by worker 1
RetryWorker == 1

\* the connection fails before any response: perform() fails with a curl error; the
\* multi backend builds the result from response code 0
ConnectErrors == {"couldnt_connect", "operation_timedout"}
ConnectError(w, e) ==
    /\ xfer[w].pc = "idle"
    /\ xfer' = [xfer EXCEPT ![w].pc = "done", ![w].curl = e,
                  ![w].status = IF xfer[w].backend = "easy" THEN NULL ELSE 0,
                  ![w].result = IF xfer[w].backend = "easy" THEN "Curl"
                                ELSE segment_result_from_easy(0, 0, SegLen(SegPlan[w]))]

\* what the attempt met, whatever the code makes of it: a throttling response, or
\* another 5xx response or a transport failure
MetThrottling(t) == t.status \in {429, 503}
MetRetryableError(t) ==
    \/ t.curl # "none"
    \/ (t.status >= 500 /\ t.status <= 599 /\ ~MetThrottling(t))
    \/ (t.result = "PartialTransfer")

IdleRetry == [pc |-> "run", policy |-> DefaultRetryPolicy, attempt |-> 1, calls |-> 0,
              kind |-> "none", delay |-> 0,
              throttle_events |-> 0, error_events |-> 0,
              met_throttle |-> 0, met_error |-> 0,
              recorded |-> FALSE, recorded_throttle |-> 0, recorded_error |-> 0]

\* run_multi l.136-140 / run_concurrent l.108-113: the tally of one classified error
TallyThrottle(kind) == IF kind = "Throttled" THEN 1 ELSE 0
TallyError(kind) == IF kind # "Throttled" /\ kind # "Other" THEN 1 ELSE 0

\* download_one_segment is called (run_with_retry l.15) / the handle is added to the
\* multi (refill_active): the request goes out
StartAttempt ==
    /\ retry.pc = "run"
    /\ xfer[RetryWorker].pc = "idle"
    /\ retry' = [retry EXCEPT !.pc = "transfer", !.calls = @ + 1]
    /\ UNCHANGED xfer

\* the transfer has ended: run_with_retry l.15-26 in the worker thread, or the
\* completed handle in run_multi l.117-155 (which tallies every failed attempt)
AttemptDone ==
    /\ retry.pc = "transfer"
    /\ xfer[RetryWorker].pc = "done"
    /\ LET t == xfer[RetryWorker]
           kind == classify(t)
           d == decide(retry.policy, retry.attempt, kind)
           multi == t.backend = "multi"
           met == [retry EXCEPT
                     !.met_throttle = @ + (IF MetThrottling(t) THEN 1 ELSE 0),
                     !.met_error = @ + (IF ~MetThrottling(t) /\ MetRetryableError(t)
                                        THEN 1 ELSE 0)]
           tallied == IF multi
                      THEN [met EXCEPT !.throttle_events = @ + TallyThrottle(kind),
                                       !.error_events = @ + TallyError(kind)]
                      ELSE met
       IN retry' =
            IF t.result = "ok"
            THEN [retry EXCEPT !.pc = IF multi THEN "ok" ELSE "sent_ok"]
            ELSE IF d.retry
            THEN [tallied EXCEPT !.pc = "sleep", !.kind = kind, !.delay = d.delay]
            ELSE [tallied EXCEPT !.pc = IF multi THEN "err" ELSE "sent_err", !.kind = kind]
    /\ UNCHANGED xfer

\* the back-off has passed: run_with_retry l.22-23, or refill_active l.196-199; the
\* next attempt is a new call with a byte counter of its own
RetrySleepEnd ==
    /\ retry.pc = "sleep"
    /\ retry' = [retry EXCEPT !.pc = "run", !.attempt = @ + 1]
    /\ xfer' = [xfer EXCEPT ![RetryWorker] =
                   [IdleTransfer EXCEPT !.backend = xfer[RetryWorker].backend,
                                        !.writes = xfer[RetryWorker].writes]]

\* run_concurrent l.86-130: the result loop receives the worker's result and
\* tallies an error by its kind
ResultReceived ==
    /\ retry.pc \in {"sent_ok", "sent_err"}
    /\ retry' = IF retry.pc = "sent_ok" THEN [retry EXCEPT !.pc = "ok"]
                 ELSE [retry EXCEPT !.pc = "err",
                          !.throttle_events = @ + TallyThrottle(retry.kind),
                          !.error_events = @ + TallyError(retry.kind)]
    /\ UNCHANGED xfer

\* execute_download_phase l.153-194: an Err of the download is returned at once; after
\* an Ok the summary goes to record_job_outcome
DownloadReturned ==
    /\ retry.pc \in {"ok", "err"}
    /\ retry' = IF retry.pc = "ok"
                 THEN [retry EXCEPT !.pc = "completed", !.recorded = TRUE,
                                    !.recorded_throttle = retry.throttle_events,
                                    !.recorded_error = retry.error_events]
                 ELSE [retry EXCEPT !.pc = "failed"]
    /\ UNCHANGED xfer

(***************************************************************************)
(* Per-host adaptive policy (host_policy/state): the entry of one host,    *)
(* the policy's bounds, the config of the running process and the JSON     *)
(* snapshot on disk                                                        *)
(***************************************************************************)
THROUGHPUT_GOOD_BPS == 1000000
MiB == 1048576

\* DdmConfig.min_segments / max_segments as the user may have set them
ConfigBounds == {<<0, 0>>, <<2, 4>>, <<2, 16>>, <<4, 16>>, <<4, 32>>, <<20, 4>>,
                 <<20, 32>>}

NoEntry == [present |-> FALSE, throttled_events |-> 0, error_events |-> 0,
            adaptive_segment_limit |-> 0]

\* HostPolicy::new
HostPolicyNew(min_segments, max_segments) ==
    LET min == Max(min_segments, 1)
        max == Max(max_segments, min)
    IN  [entry |-> NoEntry, min_segments |-> min, max_segments |-> max]

default_adaptive_limit(policy) == Min(Max(4, policy.min_segments), policy.max_segments)

\* the halving loop of recommended_max_segments
RECURSIVE HalveSteps(_, _, _)
HalveSteps(recommended, steps, floor) ==
    IF steps = 0 THEN recommended
    ELSE HalveSteps(Max(recommended \div 2, floor), steps - 1, floor)

PenaltyStepsUncapped(throttled_events) == throttled_events \div 3
PenaltySteps(throttled_events) == Min(throttled_events \div 3, 3)

recommended_max_segments(policy) ==
    LET base == Max(Max(policy.max_segments, policy.min_segments), 1)
    IN  IF ~policy.entry.present THEN base
        ELSE HalveSteps(base, PenaltySteps(policy.entry.throttled_events),
                        Max(policy.min_segments, 1))

\* entry_mut_for_url: the entry, created with the default limit when absent
entry_mut_for_url(policy) ==
    IF policy.entry.present THEN policy.entry
    ELSE [NoEntry EXCEPT !.present = TRUE,
                         !.adaptive_segment_limit = default_adaptive_limit(policy)]

\* bps >= THROUGHPUT_GOOD_BPS with bps = bytes / duration, 0 for a zero duration
GoodThroughput(bytes_downloaded, duration) ==
    duration > 0 /\ bytes_downloaded >= THROUGHPUT_GOOD_BPS * duration

\* record_job_outcome l.70-75: the step up on good throughput
StepUpUncapped(limit, max_seg, cap) ==
    IF limit < 8 THEN 8 ELSE IF limit < 16 THEN 16 ELSE Min(max_seg, 16)
StepUp(limit, max_seg, cap) ==
    Min(IF limit < 8 THEN 8 ELSE IF limit < 16 THEN 16 ELSE Min(max_seg, 16), cap)

record_job_outcome(policy, bytes_downloaded, duration, throttle_events, error_events) ==
    LET min_seg == Max(policy.min_segments, 1)
        max_seg == policy.max_segments
        cap == recommended_max_segments(policy)
        e0 == entry_mut_for_url(policy)
        e1 == [e0 EXCEPT !.throttled_events = @ + throttle_events,
                         !.error_events = @ + error_events]
        limit == IF throttle_events > 0 \/ error_events > 0
                 THEN Min(Max(e0.adaptive_segment_limit \div 2, min_seg), max_seg)
                 ELSE IF GoodThroughput(bytes_downloaded, duration)
                 THEN StepUp(e0.adaptive_segment_limit, max_seg, cap)
                 ELSE e0.adaptive_segment_limit
    IN  [policy EXCEPT !.entry = [e1 EXCEPT !.adaptive_segment_limit = limit]]

adaptive_segment_count(policy) ==
    LET cap == recommended_max_segments(policy)
    IN  IF ~policy.entry.present THEN Min(default_adaptive_limit(policy), cap)
        ELSE Min(Max(Min(policy.entry.adaptive_segment_limit, cap), policy.min_segments),
                 policy.max_segments)

\* to_snapshot: the bounds and the entry as written to host_policy.json
to_snapshot(policy) ==
    [min_segments |-> policy.min_segments, max_segments |-> policy.max_segments,
     entry |-> policy.entry]

\* from_snapshot with the bounds of the current config
RestoredLimitStored(limit, min, max) == limit
RestoredLimit(limit, min, max) == Min(Max(limit, min), max)

from_snapshot(snapshot, min_segments, max_segments) ==
    LET min == Max(min_segments, 1)
        max == Max(max_segments, min)
    IN  [entry |-> IF snapshot.entry.present
                   THEN [snapshot.entry EXCEPT !.adaptive_segment_limit =
                            RestoredLimit(@, min, max)]
                   ELSE NoEntry,
         min_segments |-> min, max_segments |-> max]

NoCall == [op |-> "none", a |-> 0, b |-> 0, before |-> 0, out |-> 0]

\* run_one_job_shared l.58-61: record_head_result creates the entry of the host
RecordHeadResult ==
    /\ hostp.pc = "running"
    /\ ~hostp.policy.entry.present
    /\ hostp' = [hostp EXCEPT !.policy.entry = entry_mut_for_url(hostp.policy),
                              !.last = [NoCall EXCEPT !.op = "head"]]

\* run_one_job_shared l.82: choose_segment_count(total_size, cfg, url, policy)
ChooseSegmentCount(total_size) ==
    /\ hostp.pc = "running"
    /\ hostp' = [hostp EXCEPT !.last =
                    [NoCall EXCEPT !.op = "choose", !.a = total_size,
                        !.out = ClampSegmentCount(total_size, hostp.cfg_min, hostp.cfg_max,
                                                  adaptive_segment_count(hostp.policy))]]

\* execute_download_phase l.170-192: record_job_outcome after a run that returned Ok
RecordJobOutcome(bytes_downloaded, duration, throttle_events, error_events) ==
    /\ hostp.pc = "running"
    /\ hostp.policy.entry.throttled_events + throttle_events <= MaxThrottled
    /\ hostp.policy.entry.error_events + error_events <= 1
    /\ hostp' = [hostp EXCEPT
          !.policy = record_job_outcome(hostp.policy, bytes_downloaded, duration,
                                        throttle_events, error_events),
          !.last = [op |-> "outcome",
                    a |-> throttle_events + error_events,
                    b |-> IF duration > 0 THEN bytes_downloaded \div duration ELSE 0,
                    before |-> entry_mut_for_url(hostp.policy).adaptive_segment_limit,
                    out |-> recommended_max_segments(hostp.policy)]]

\* `ddm run` ends: save_to_path writes the snapshot and the process exits
SaveToPath ==
    /\ hostp.pc = "running"
    /\ hostp.restarts < MaxRestarts
    /\ hostp' = [hostp EXCEPT !.pc = "exited", !.snapshot = to_snapshot(hostp.policy),
                              !.last = NoCall]

\* `ddm run` starts with a config of its own: load_from_path
LoadFromPath(min_segments, max_segments) ==
    /\ hostp.pc = "exited"
    /\ hostp' = [hostp EXCEPT !.pc = "running", !.restarts = @ + 1,
                              !.cfg_min = min_segments, !.cfg_max = max_segments,
                              !.policy = from_snapshot(hostp.snapshot,
                                                       min_segments, max_segments),
                              !.last = [NoCall EXCEPT !.op = "load"]]

(***************************************************************************)
(* Specifications                                                          *)
(***************************************************************************)
OnlyDb     == UNCHANGED budgetVars /\ UNCHANGED runVars /\ UNCHANGED poolVars
              /\ UNCHANGED extraVars
OnlyBudget == UNCHANGED dbVars /\ UNCHANGED runVars /\ UNCHANGED poolVars
              /\ UNCHANGED extraVars
\* a step of a job run or of its thread pool, which may write the jobs table
OnlyJobs   == UNCHANGED <<lock, tx, claim_count>> /\ UNCHANGED budgetVars
              /\ UNCHANGED moreVars
OnlyPool   == OnlyJobs /\ UNCHANGED extraVars
OnlyRun    == OnlyPool /\ UNCHANGED poolVars
\* a step of the scheduler loop: it writes sched, the jobs table and the task records
OnlySched  == OnlyJobs /\ UNCHANGED <<control, xfer>> /\ UNCHANGED poolVars
\* a step of a task while the scheduler process is alive
TaskStep   == SchedUp /\ OnlyJobs /\ UNCHANGED <<sched, control, xfer>>

\* concurrent claim_next_queued_job calls on the connections of the pool
InitClaim == InitDb /\ IdleBudget /\ IdleRunVars /\ IdlePool /\ IdleExtra

NextClaim ==
    \/ \E c \in Conns : ClaimBegin(c) /\ OnlyDb
    \/ \E c \in Conns : ClaimSelect(c) /\ OnlyDb
    \/ \E c \in Conns : ClaimNone(c) /\ OnlyDb
    \/ \E c \in Conns : ClaimUpdate(c) /\ OnlyDb
    \/ \E c \in Conns : ClaimUpdateBusy(c) /\ OnlyDb
    \/ \E c \in Conns : ClaimCommit(c) /\ OnlyDb
    \/ \E c \in Conns : ClaimCommitBusy(c) /\ OnlyDb
    \/ \E id \in JobIds : AddJob(id) /\ OnlyDb

SpecClaim == InitClaim /\ [][NextClaim]_vars

\* jobs running in parallel on one global connection budget
InitBudgetSpec == IdleDb /\ InitBudget /\ IdleRunVars /\ IdlePool /\ IdleExtra

NextBudget ==
    \/ \E j \in BJobs, s \in 1..BudgetSegs : BStart(j, s, MaxPerHost) /\ OnlyBudget
    \/ \E j \in BJobs : ReserveLoad(j) /\ OnlyBudget
    \/ \E j \in BJobs : ReserveCas(j) /\ OnlyBudget
    \/ \E j \in BJobs : StartTransfer(j) /\ OnlyBudget
    \/ \E j \in BJobs : FinishTransfer(j) /\ OnlyBudget
    \/ \E j \in BJobs : ExecutorExit(j) /\ OnlyBudget
    \/ \E j \in BJobs : TaskCancelled(j) /\ OnlyBudget
    \/ \E j \in BJobs : ReleaseLoad(j) /\ OnlyBudget
    \/ \E j \in BJobs : ReleaseSub(j) /\ OnlyBudget

SpecBudget == InitBudgetSpec /\ [][NextBudget]_vars

\* the download phase of one job: segmented with the thread-pool executor and an
\* abort token, or single-stream
InitExec ==
    /\ IdleBudget
    /\ \/ \E done \in {{}, {0}} : InitDownloadPhase(ExecSegs, done, "x_spawn")
       \/ InitDownloadPhase(0, {}, "s_create")

NextExec ==
    \/ \E m \in 1..NumThreads : XSpawn(1, m) /\ UNCHANGED jobs /\ OnlyPool
    \/ \E w \in Threads : WorkerTake(1, w) /\ OnlyPool
    \/ \E w \in Threads, res \in SegOutcomes : WorkerFinish(1, w, res) /\ OnlyPool
    \/ ConsRecv(1) /\ OnlyPool
    \/ ConsRecvClosed(1) /\ OnlyPool
    \/ ConsJoin(1) /\ OnlyPool
    \/ ProgressPersist(1) /\ OnlyRun
    \/ RequestAbort(1) /\ OnlyPool
    \/ XJoined(1) /\ OnlyRun
    \/ XPaused(1) /\ OnlyRun
    \/ XSync(1) /\ OnlyRun
    \/ XUpdateMetadata(1) /\ OnlyRun
    \/ XFinalize(1) /\ OnlyRun
    \/ XSetCompleted(1) /\ OnlyRun
    \/ SetError(1) /\ OnlyRun
    \/ SCreate(1) /\ OnlyRun
    \/ \E res \in {"ok", "other"} : SDownload(1, res) /\ OnlyRun
    \/ SSync(1) /\ OnlyRun
    \/ SFinalize(1) /\ OnlyRun
    \/ SSetCompleted(1) /\ OnlyRun
    \/ SReturn(1) /\ OnlyRun

SpecExec == InitExec /\ [][NextExec]_vars

\* run_concurrent alone: the worker threads, the result loop and the external
\* abort token, from the spawn of the workers to the return
InitPool ==
    /\ IdleBudget
    /\ InitDownloadPhase(ExecSegs, {}, "x_spawn")

NextPool ==
    \/ \E m \in 1..NumThreads : XSpawn(1, m) /\ UNCHANGED jobs /\ OnlyPool
    \/ \E w \in Threads : WorkerTake(1, w) /\ OnlyPool
    \/ \E w \in Threads, res \in SegOutcomes : WorkerFinish(1, w, res) /\ OnlyPool
    \/ ConsRecv(1) /\ OnlyPool
    \/ ConsRecvClosed(1) /\ OnlyPool
    \/ ConsJoin(1) /\ OnlyPool
    \/ RequestAbort(1) /\ OnlyPool

\* the worker threads and the thread of the result loop are scheduled by the
\* operating system, and a segment transfer ends (run_with_retry makes a bounded
\* number of attempts, each with its timeouts)
SpecPool ==
    /\ InitPool /\ [][NextPool]_vars
    /\ \A w \in Threads : WF_vars(WorkerTake(1, w) /\ OnlyPool)
    /\ \A w \in Threads : WF_vars(\E res \in SegOutcomes : WorkerFinish(1, w, res) /\ OnlyPool)
    /\ WF_vars(ConsRecv(1) /\ OnlyPool)
    /\ WF_vars(ConsRecvClosed(1) /\ OnlyPool)
    /\ WF_vars(ConsJoin(1) /\ OnlyPool)

\* the download phase of a job whose file is empty (Content-Length: 0; the plan
\* has no segment, the row has the segment count chosen for it) or has ExecSegs
\* bytes
RunEndRows ==
    {ExecRow(ExecSegs, {}),
     [ExecRow(0, {}) EXCEPT !.segment_count = choose_segment_count(0, 4)]}

InitRunEnd ==
    /\ IdleBudget
    /\ \E row \in RunEndRows :
          /\ jobs = [i \in JobIds |-> IF i = 1 THEN row ELSE NoRow]
          /\ run = [r \in Runners |-> IF r = 1
                      THEN [IdleRun EXCEPT !.pc = "x_open", !.id = 1, !.job = row,
                                           !.needs_metadata = TRUE,
                                           !.bitmap = from_bytes({}, row.segment_count)]
                      ELSE IdleRun]
    /\ lock = [c \in Conns |-> "unlocked"]
    /\ tx = [c \in Conns |-> IdleTx]
    /\ claim_count = [i \in JobIds |-> 0]
    /\ abort = [r \in Runners |-> FALSE]
    /\ ex = [r \in Runners |-> IdleEx]
    /\ chan = [r \in Runners |-> <<>>]
    /\ senders = [r \in Runners |-> {}]
    /\ fs = [i \in JobIds |-> NoFile]
    /\ force_restart = FALSE
    /\ overwrite = FALSE
    /\ cmds = 0
    /\ IdlePool
    /\ IdleExtra

NextRunEnd ==
    \/ XOpen(1) /\ OnlyRun
    \/ \E m \in 1..NumThreads : XSpawn(1, m) /\ UNCHANGED jobs /\ OnlyPool
    \/ \E w \in Threads : WorkerTake(1, w) /\ OnlyPool
    \/ \E w \in Threads, res \in SegOutcomes : WorkerFinish(1, w, res) /\ OnlyPool
    \/ ConsRecv(1) /\ OnlyPool
    \/ ConsRecvClosed(1) /\ OnlyPool
    \/ ConsJoin(1) /\ OnlyPool
    \/ ProgressPersist(1) /\ OnlyRun
    \/ RequestAbort(1) /\ OnlyPool
    \/ XJoined(1) /\ OnlyRun
    \/ XPaused(1) /\ OnlyRun
    \/ XSync(1) /\ OnlyRun
    \/ XUpdateMetadata(1) /\ OnlyRun
    \/ XFinalize(1) /\ OnlyRun
    \/ XSetCompleted(1) /\ OnlyRun
    \/ SetError(1) /\ OnlyRun

SpecRunEnd == InitRunEnd /\ [][NextRunEnd]_vars

\* the download phase of one job of LongSegs segments, one worker thread, every
\* segment transfer succeeding
InitExecLong ==
    /\ IdleBudget
    /\ InitDownloadPhase(LongSegs, {}, "x_spawn")

NextExecLong ==
    \/ XSpawn(1, 1) /\ UNCHANGED jobs /\ OnlyPool
    \/ \E w \in Threads : WorkerTake(1, w) /\ OnlyPool
    \/ \E w \in Threads : WorkerFinish(1, w, "ok") /\ OnlyPool
    \/ ConsRecv(1) /\ OnlyPool
    \/ ConsRecvClosed(1) /\ OnlyPool
    \/ ConsJoin(1) /\ OnlyPool
    \/ ProgressPersist(1) /\ OnlyRun
    \/ RequestAbort(1) /\ OnlyPool
    \/ XJoined(1) /\ OnlyRun
    \/ XPaused(1) /\ OnlyRun
    \/ XSync(1) /\ OnlyRun
    \/ XUpdateMetadata(1) /\ OnlyRun
    \/ XFinalize(1) /\ OnlyRun
    \/ XSetCompleted(1) /\ OnlyRun
    \/ SetError(1) /\ OnlyRun

SpecExecLong == InitExecLong /\ [][NextExecLong]_vars

\* the parallel scheduler running one job with its tasks, under external commands;
\* run_one_job_shared hands no abort token to the download phase
InitJob ==
    /\ IdleBudget
    /\ IdlePool
    /\ IdleExtra
    /\ jobs = [i \in JobIds |-> IF i = 1 THEN QueuedRow ELSE NoRow]
    /\ lock = [c \in Conns |-> "unlocked"]
    /\ tx = [c \in Conns |-> IdleTx]
    /\ claim_count = [i \in JobIds |-> 0]
    /\ run = [r \in Runners |-> IdleRun]
    /\ abort = [r \in Runners |-> FALSE]
    /\ ex = [r \in Runners |-> IdleEx]
    /\ chan = [r \in Runners |-> <<>>]
    /\ senders = [r \in Runners |-> {}]
    /\ fs = [i \in JobIds |-> NoFile]
    /\ force_restart \in BOOLEAN
    /\ overwrite \in BOOLEAN
    /\ cmds = 0

NextJob ==
    \/ \E r \in Runners : ClaimJob(r) /\ OnlyRun
    \/ \E r \in Runners : JoinNext(r) /\ OnlyPool
    \/ \E r \in Runners : GetJob(r) /\ OnlyRun
    \/ \E r \in Runners, h \in HeadResults : Probe(r, h) /\ OnlyRun
    \/ \E r \in Runners : MetaWrite(r) /\ OnlyRun
    \/ \E r \in Runners : MetaRead(r) /\ OnlyRun
    \/ \E r \in Runners : CheckFinal(r) /\ OnlyRun
    \/ \E r \in Runners : SetRunning(r) /\ OnlyRun
    \/ \E r \in Runners : XOpen(r) /\ OnlyRun
    \/ \E r \in Runners : XSpawn(r, 1) /\ UNCHANGED jobs /\ OnlyPool
    \/ \E r \in Runners, w \in Threads : WorkerTake(r, w) /\ OnlyPool
    \/ \E r \in Runners, w \in Threads, res \in {"ok", "other"} :
           WorkerFinish(r, w, res) /\ OnlyPool
    \/ \E r \in Runners : ConsRecv(r) /\ OnlyPool
    \/ \E r \in Runners : ConsJoin(r) /\ OnlyPool
    \/ \E r \in Runners : ProgressPersist(r) /\ OnlyRun
    \/ \E r \in Runners : XJoined(r) /\ OnlyRun
    \/ \E r \in Runners : XSync(r) /\ OnlyRun
    \/ \E r \in Runners : XUpdateMetadata(r) /\ OnlyRun
    \/ \E r \in Runners : XFinalize(r) /\ OnlyRun
    \/ \E r \in Runners : XSetCompleted(r) /\ OnlyRun
    \/ \E r \in Runners : SetError(r) /\ OnlyRun
    \/ Recover /\ OnlyRun
    \/ \E id \in JobIds : Pause(id) /\ OnlyRun
    \/ \E id \in JobIds : Resume(id) /\ OnlyRun
    \/ \E id \in JobIds, d \in BOOLEAN : Remove(id, d) /\ OnlyRun

SpecJob == InitJob /\ [][NextJob]_vars

\* `ddm run --jobs 2`, the least value that takes run_jobs_parallel, on a queue of
\* QueueLen one-byte files; the process may be killed and started again
ParallelJobs == 2
ParallelHeads == {[GoodHead(1) EXCEPT !.content_length = 1],
                  [NoHead EXCEPT !.status = "fail"]}

InitParallel ==
    /\ IdleBudget
    /\ IdlePool
    /\ jobs = [i \in JobIds |-> IF i <= QueueLen THEN QueuedRow ELSE NoRow]
    /\ lock = [c \in Conns |-> "unlocked"]
    /\ tx = [c \in Conns |-> IdleTx]
    /\ claim_count = [i \in JobIds |-> 0]
    /\ run = [r \in Runners |-> IdleRun]
    /\ abort = [r \in Runners |-> FALSE]
    /\ ex = [r \in Runners |-> IdleEx]
    /\ chan = [r \in Runners |-> <<>>]
    /\ senders = [r \in Runners |-> {}]
    /\ fs = [i \in JobIds |-> NoFile]
    /\ force_restart = FALSE
    /\ overwrite = FALSE
    /\ cmds = 0
    /\ sched = [IdleSched EXCEPT !.pc = "start", !.max_concurrent = Max(ParallelJobs, 1)]
    /\ control = IdleControl
    /\ xfer = [w \in Threads |-> IdleTransfer]
    /\ IdleMore

NextParallel ==
    \/ SchedRecover /\ OnlySched
    \/ \E r \in Runners : SchedClaim(r) /\ OnlySched
    \/ SchedFillEnd /\ OnlySched
    \/ \E r \in Runners : SchedJoin(r) /\ OnlyJobs /\ UNCHANGED <<control, xfer>>
    \/ Crash /\ OnlyJobs /\ UNCHANGED <<control, xfer>>
    \/ \E r \in Runners : GetJob(r) /\ TaskStep /\ UNCHANGED poolVars
    \/ \E r \in Runners, h \in ParallelHeads : Probe(r, h) /\ TaskStep /\ UNCHANGED poolVars
    \/ \E r \in Runners : MetaWrite(r) /\ TaskStep /\ UNCHANGED poolVars
    \/ \E r \in Runners : MetaRead(r) /\ TaskStep /\ UNCHANGED poolVars
    \/ \E r \in Runners : CheckFinal(r) /\ TaskStep /\ UNCHANGED poolVars
    \/ \E r \in Runners : SetRunning(r) /\ TaskStep /\ UNCHANGED poolVars
    \/ \E r \in Runners : XOpen(r) /\ TaskStep /\ UNCHANGED poolVars
    \/ \E r \in Runners : XSpawn(r, 1) /\ UNCHANGED jobs /\ TaskStep
    \/ \E r \in Runners, w \in Threads : WorkerTake(r, w) /\ TaskStep
    \/ \E r \in Runners, w \in Threads, res \in {"ok", "other"} :
           WorkerFinish(r, w, res) /\ TaskStep
    \/ \E r \in Runners : ConsRecv(r) /\ TaskStep
    \/ \E r \in Runners : ConsJoin(r) /\ TaskStep
    \/ \E r \in Runners : ProgressPersist(r) /\ TaskStep /\ UNCHANGED poolVars
    \/ \E r \in Runners : XJoined(r) /\ TaskStep /\ UNCHANGED poolVars
    \/ \E r \in Runners : XSync(r) /\ TaskStep /\ UNCHANGED poolVars
    \/ \E r \in Runners : XUpdateMetadata(r) /\ TaskStep /\ UNCHANGED poolVars
    \/ \E r \in Runners : XFinalize(r) /\ TaskStep /\ UNCHANGED poolVars
    \/ \E r \in Runners : XSetCompleted(r) /\ TaskStep /\ UNCHANGED poolVars
    \/ \E r \in Runners : SetError(r) /\ TaskStep /\ UNCHANGED poolVars

SpecParallel == InitParallel /\ [][NextParallel]_vars

\* the tasks of one scheduler process running job 1 with a registered abort token,
\* under the control socket and `ddm resume`
InitControl ==
    /\ IdleBudget
    /\ IdlePool
    /\ IdleExtra
    /\ jobs = [i \in JobIds |-> IF i = 1 THEN QueuedRow ELSE NoRow]
    /\ lock = [c \in Conns |-> "unlocked"]
    /\ tx = [c \in Conns |-> IdleTx]
    /\ claim_count = [i \in JobIds |-> 0]
    /\ run = [r \in Runners |-> IdleRun]
    /\ abort = [r \in Runners |-> FALSE]
    /\ ex = [r \in Runners |-> IdleEx]
    /\ chan = [r \in Runners |-> <<>>]
    /\ senders = [r \in Runners |-> {}]
    /\ fs = [i \in JobIds |-> NoFile]
    /\ force_restart = FALSE
    /\ overwrite = FALSE
    /\ cmds = 0

OnlyControl == OnlyJobs /\ UNCHANGED <<sched, xfer>>

NextControl ==
    \/ \E r \in Runners : ClaimJob(r) /\ OnlyRun
    \/ \E r \in Runners : RegisterJob(r) /\ OnlyControl /\ UNCHANGED poolVars
    \/ \E r \in Runners : control.held[r] /\ GetJob(r) /\ OnlyRun
    \/ \E r \in Runners : Probe(r, GoodHead(1)) /\ OnlyRun
    \/ \E r \in Runners : MetaWrite(r) /\ OnlyRun
    \/ \E r \in Runners : MetaRead(r) /\ OnlyRun
    \/ \E r \in Runners : CheckFinal(r) /\ OnlyRun
    \/ \E r \in Runners : SetRunning(r) /\ OnlyRun
    \/ \E r \in Runners : XOpen(r) /\ OnlyRun
    \/ \E r \in Runners : XSpawn(r, 1) /\ UNCHANGED jobs /\ OnlyPool
    \/ \E r \in Runners, w \in Threads : WorkerTake(r, w) /\ OnlyPool
    \/ \E r \in Runners, w \in Threads, res \in {"ok", "other"} :
           WorkerFinish(r, w, res) /\ OnlyPool
    \/ \E r \in Runners : ConsRecv(r) /\ OnlyPool
    \/ \E r \in Runners : ConsRecvClosed(r) /\ OnlyPool
    \/ \E r \in Runners : ConsJoin(r) /\ OnlyPool
    \/ \E r \in Runners : ProgressPersist(r) /\ OnlyRun
    \/ \E r \in Runners : XJoined(r) /\ OnlyRun
    \/ \E r \in Runners : XPaused(r) /\ OnlyRun
    \/ \E r \in Runners : XSync(r) /\ OnlyRun
    \/ \E r \in Runners : XUpdateMetadata(r) /\ OnlyRun
    \/ \E r \in Runners : XFinalize(r) /\ OnlyRun
    \/ \E r \in Runners : XSetCompleted(r) /\ OnlyRun
    \/ \E r \in Runners : SetError(r) /\ OnlyRun
    \/ \E r \in Runners : UnregisterJob(r) /\ OnlyControl /\ UNCHANGED poolVars
    \/ \E r \in Runners : ~control.held[r] /\ JoinNext(r) /\ OnlyPool
    \/ \E id \in JobIds : ControlRequestAbort(id) /\ OnlyControl
    \/ \E id \in JobIds : Resume(id) /\ OnlyRun

SpecControl == InitControl /\ [][NextControl]_vars

\* run_one_job_shared called for job 1 whose row is Completed: the final file of n
\* segments is in place, the bitmap is full, the validators are stored
CompletedRow(n) == [ExecRow(FileSize, 0..(n - 1)) EXCEPT !.state = "completed",
                                                         !.segment_count = n]
InitRerunWith(n) ==
    /\ IdleBudget
    /\ IdlePool
    /\ IdleExtra
    /\ jobs = [i \in JobIds |-> IF i = 1 THEN CompletedRow(n) ELSE NoRow]
    /\ lock = [c \in Conns |-> "unlocked"]
    /\ tx = [c \in Conns |-> IdleTx]
    /\ claim_count = [i \in JobIds |-> 0]
    /\ run = [r \in Runners |-> IF r = 1 THEN [IdleRun EXCEPT !.pc = "get_job", !.id = 1]
                                          ELSE IdleRun]
    /\ abort = [r \in Runners |-> FALSE]
    /\ ex = [r \in Runners |-> IdleEx]
    /\ chan = [r \in Runners |-> <<>>]
    /\ senders = [r \in Runners |-> {}]
    /\ fs = [i \in JobIds |-> IF i = 1
                THEN [NoFile EXCEPT !.final = TRUE, !.final_data = 0..(n - 1)]
                ELSE NoFile]
    /\ force_restart \in BOOLEAN
    /\ overwrite \in BOOLEAN
    /\ cmds = 0

InitRerun == \E n \in 1..FileSize : InitRerunWith(n)

NextRerun ==
    \/ GetJob(1) /\ OnlyRun
    \/ \E h \in HeadResults : Probe(1, h) /\ OnlyRun
    \/ MetaWrite(1) /\ OnlyRun
    \/ MetaRead(1) /\ OnlyRun
    \/ CheckFinal(1) /\ OnlyRun
    \/ SetRunning(1) /\ OnlyRun
    \/ XOpen(1) /\ OnlyRun
    \/ \E m \in 1..NumThreads : XSpawn(1, m) /\ UNCHANGED jobs /\ OnlyPool
    \/ \E w \in Threads : WorkerTake(1, w) /\ OnlyPool
    \/ \E w \in Threads, res \in {"ok", "other"} : WorkerFinish(1, w, res) /\ OnlyPool
    \/ ConsRecv(1) /\ OnlyPool
    \/ ConsJoin(1) /\ OnlyPool
    \/ ProgressPersist(1) /\ OnlyRun
    \/ XJoined(1) /\ OnlyRun
    \/ XSync(1) /\ OnlyRun
    \/ XUpdateMetadata(1) /\ OnlyRun
    \/ XFinalize(1) /\ OnlyRun
    \/ XSetCompleted(1) /\ OnlyRun
    \/ SetError(1) /\ OnlyRun

SpecRerun == InitRerun /\ [][NextRerun]_vars

\* run_one_job_shared resuming job 1: the row was claimed and carries the validators
\* and the bitmap of an earlier run (segment 0 done), the .part file holds segment 0;
\* the server may have changed, dropped or added a validator since
ResumeHeads ==
    {GoodHead(1), GoodHead(2),
     [GoodHead(1) EXCEPT !.etag = NULL],
     [GoodHead(1) EXCEPT !.last_modified = 2],
     [GoodHead(1) EXCEPT !.last_modified = NULL],
     [GoodHead(1) EXCEPT !.content_length = FileSize + 1]}

InitResumeWith(stored_etag) ==
    /\ IdleBudget
    /\ IdlePool
    /\ IdleExtra
    /\ jobs = [i \in JobIds |-> IF i = 1
                  THEN [ExecRow(FileSize, {0}) EXCEPT !.etag = stored_etag]
                  ELSE NoRow]
    /\ lock = [c \in Conns |-> "unlocked"]
    /\ tx = [c \in Conns |-> IdleTx]
    /\ claim_count = [i \in JobIds |-> 0]
    /\ run = [r \in Runners |-> IF r = 1 THEN [IdleRun EXCEPT !.pc = "get_job", !.id = 1]
                                          ELSE IdleRun]
    /\ abort = [r \in Runners |-> FALSE]
    /\ ex = [r \in Runners |-> IdleEx]
    /\ chan = [r \in Runners |-> <<>>]
    /\ senders = [r \in Runners |-> {}]
    /\ fs = [i \in JobIds |-> IF i = 1
                THEN [NoFile EXCEPT !.temp = TRUE, !.temp_data = {0}, !.temp_durable = TRUE]
                ELSE NoFile]
    /\ force_restart \in BOOLEAN
    /\ overwrite = FALSE
    /\ cmds = 0

InitResume == \E e \in {1, NULL} : InitResumeWith(e)

NextResume ==
    \/ GetJob(1) /\ OnlyRun
    \/ \E h \in ResumeHeads : Probe(1, h) /\ OnlyRun
    \/ MetaWrite(1) /\ OnlyRun
    \/ MetaRead(1) /\ OnlyRun
    \/ CheckFinal(1) /\ OnlyRun
    \/ SetRunning(1) /\ OnlyRun
    \/ XOpen(1) /\ OnlyRun
    \/ XSpawn(1, 1) /\ UNCHANGED jobs /\ OnlyPool
    \/ \E w \in Threads : WorkerTake(1, w) /\ OnlyPool
    \/ \E w \in Threads, res \in {"ok", "other"} : WorkerFinish(1, w, res) /\ OnlyPool
    \/ ConsRecv(1) /\ OnlyPool
    \/ ConsJoin(1) /\ OnlyPool
    \/ ProgressPersist(1) /\ OnlyRun
    \/ XJoined(1) /\ OnlyRun
    \/ XSync(1) /\ OnlyRun
    \/ XUpdateMetadata(1) /\ OnlyRun
    \/ XFinalize(1) /\ OnlyRun
    \/ XSetCompleted(1) /\ OnlyRun
    \/ SetError(1) /\ OnlyRun

SpecResume == InitResume /\ [][NextResume]_vars

\* task 1 downloads job 1 (ExecSegs segments, every transfer succeeding) and may be
\* paused through its abort token; once it has ended Paused, `ddm resume 1` queues
\* the job and task 2 runs it again against an unchanged server
InitPauseResume ==
    /\ IdleBudget
    /\ InitDownloadPhase(ExecSegs, {}, "x_spawn")

UnchangedHead == [GoodHead(1) EXCEPT !.content_length = ExecSegs]

NextPauseResume ==
    \/ \E r \in Runners, m \in 1..NumThreads : XSpawn(r, m) /\ UNCHANGED jobs /\ OnlyPool
    \/ \E r \in Runners, w \in Threads : WorkerTake(r, w) /\ OnlyPool
    \/ \E r \in Runners, w \in Threads : WorkerFinish(r, w, "ok") /\ OnlyPool
    \/ \E r \in Runners : ConsRecv(r) /\ OnlyPool
    \/ \E r \in Runners : ConsRecvClosed(r) /\ OnlyPool
    \/ \E r \in Runners : ConsJoin(r) /\ OnlyPool
    \/ \E r \in Runners : ProgressPersist(r) /\ OnlyRun
    \/ RequestAbort(1) /\ OnlyPool
    \/ \E r \in Runners : XJoined(r) /\ OnlyRun
    \/ \E r \in Runners : XPaused(r) /\ OnlyRun
    \/ \E r \in Runners : XSync(r) /\ OnlyRun
    \/ \E r \in Runners : XUpdateMetadata(r) /\ OnlyRun
    \/ \E r \in Runners : XFinalize(r) /\ OnlyRun
    \/ \E r \in Runners : XSetCompleted(r) /\ OnlyRun
    \/ \E r \in Runners : SetError(r) /\ OnlyRun
    \/ run[1].pc = "done" /\ jobs[1].state = "paused" /\ Resume(1) /\ OnlyRun
    \/ run[1].pc = "done" /\ ClaimJob(2) /\ OnlyRun
    \/ GetJob(2) /\ OnlyRun
    \/ Probe(2, UnchangedHead) /\ OnlyRun
    \/ CheckFinal(2) /\ OnlyRun
    \/ SetRunning(2) /\ OnlyRun
    \/ XOpen(2) /\ OnlyRun

SpecPauseResume == InitPauseResume /\ [][NextPauseResume]_vars

\* the worker threads of one executor, each with the transfer of its segment, on the
\* easy backend (download_one_segment) or on the multi backend (run_multi)
InitSegment ==
    /\ IdleDb
    /\ IdleBudget
    /\ IdleRunVars
    /\ IdlePool
    /\ sched = IdleSched
    /\ control = IdleControl
    /\ \E b \in {"easy", "multi"} : xfer = [w \in Threads |-> [IdleTransfer EXCEPT !.backend = b]]
    /\ IdleMore

OnlyXfer == UNCHANGED dbVars /\ UNCHANGED budgetVars /\ UNCHANGED runVars
            /\ UNCHANGED poolVars /\ UNCHANGED <<sched, control>>
            /\ UNCHANGED moreVars

NextSegment ==
    \/ \E w \in Threads : \E resp \in Responses(SegLen(SegPlan[w])) : Respond(w, resp) /\ OnlyXfer
    \/ \E w \in Threads, ok \in BOOLEAN : WriteCallback(w, ok) /\ OnlyXfer
    \/ \E w \in Threads : BodyEnd(w) /\ OnlyXfer
    \/ \E w \in Threads, e \in CurlErrors : TransportError(w, e) /\ OnlyXfer

SpecSegment == InitSegment /\ [][NextSegment]_vars

\* a call of plan_segments(total_size, segment_count)
IdleBase == IdleDb /\ IdleBudget /\ IdleRunVars /\ IdlePool
            /\ sched = IdleSched /\ control = IdleControl
            /\ xfer = [w \in Threads |-> IdleTransfer]
OnlyCalc == UNCHANGED dbVars /\ UNCHANGED budgetVars /\ UNCHANGED runVars
            /\ UNCHANGED poolVars /\ UNCHANGED <<sched, control, xfer, retry, hostp, pair, mrun, names, seq, hpol>>

InitPlan ==
    /\ IdleBase
    /\ retry = NULL
    /\ hostp = NULL
    /\ pair = NULL
    /\ IdleLate
    /\ \E n \in 0..MaxTotalSize, k \in 0..MaxSegmentCount :
          calc = [pc |-> "call", total_size |-> n, segment_count |-> k, out |-> <<>>]

CallPlanSegments ==
    /\ calc.pc = "call"
    /\ calc' = [calc EXCEPT !.pc = "returned",
                            !.out = plan_segments(calc.total_size, calc.segment_count)]

NextPlan == CallPlanSegments /\ OnlyCalc

SpecPlan == InitPlan /\ [][NextPlan]_vars

\* one executor run with one incomplete segment, fetched with retries on either backend
RetryLoopPolicies ==
    [max_attempts : 0..MaxLoopAttempts, base_delay : {250}, max_delay : {30000}]

RetryResponses(len) ==
    {[status |-> 206, crange |-> "exact", body |-> b] : b \in {len - 1, len}}
    \cup {[status |-> st, crange |-> "none", body |-> 0] : st \in {429, 500, 503, 404}}
    \cup {[status |-> 503, crange |-> "none", body |-> 1]}

InitRetry ==
    /\ IdleDb
    /\ IdleBudget
    /\ IdleRunVars
    /\ IdlePool
    /\ sched = IdleSched
    /\ control = IdleControl
    /\ hostp = NULL
    /\ calc = NULL
    /\ pair = NULL
    /\ IdleLate
    /\ \E b \in {"easy", "multi"} : xfer = [w \in Threads |-> [IdleTransfer EXCEPT !.backend = b]]
    /\ \E p \in RetryLoopPolicies : retry = [IdleRetry EXCEPT !.policy = p]

OnlyRetry == UNCHANGED dbVars /\ UNCHANGED budgetVars /\ UNCHANGED runVars
             /\ UNCHANGED poolVars /\ UNCHANGED <<sched, control, hostp, calc, pair, mrun, names, seq, hpol>>
TransferStep == retry.pc = "transfer" /\ OnlyRetry /\ UNCHANGED retry

NextRetry ==
    \/ StartAttempt /\ OnlyRetry
    \/ \E e \in ConnectErrors : ConnectError(RetryWorker, e) /\ TransferStep
    \/ \E resp \in RetryResponses(SegLen(SegPlan[RetryWorker])) :
          Respond(RetryWorker, resp) /\ TransferStep
    \/ \E ok \in BOOLEAN : WriteCallback(RetryWorker, ok) /\ TransferStep
    \/ BodyEnd(RetryWorker) /\ TransferStep
    \/ \E e \in CurlErrors : TransportError(RetryWorker, e) /\ TransferStep
    \/ AttemptDone /\ OnlyRetry
    \/ RetrySleepEnd /\ OnlyRetry
    \/ ResultReceived /\ OnlyRetry
    \/ DownloadReturned /\ OnlyRetry

SpecRetry == InitRetry /\ [][NextRetry]_vars

\* the same run when every transfer ends (curl's timeouts) and every sleep ends
SpecRetryFair == SpecRetry /\ WF_vars(NextRetry)

\* a call of RetryPolicy::decide(attempt, kind) on a policy built from the config
RetryPolicies ==
    {DefaultRetryPolicy} \cup
    [max_attempts : {0, 1, 3, MaxAttempt + 1}, base_delay : {1, 50}, max_delay : {0, 30000}]

InitDecide ==
    /\ IdleBase
    /\ retry = NULL
    /\ hostp = NULL
    /\ pair = NULL
    /\ IdleLate
    /\ \E p \in RetryPolicies, n \in 1..MaxAttempt, k \in ErrorKinds :
          calc = [pc |-> "call", policy |-> p, attempt |-> n, kind |-> k, out |-> NoRetry]

CallDecide ==
    /\ calc.pc = "call"
    /\ calc' = [calc EXCEPT !.pc = "returned",
                            !.out = decide(calc.policy, calc.attempt, calc.kind)]

NextDecide == CallDecide /\ OnlyCalc

SpecDecide == InitDecide /\ [][NextDecide]_vars

\* `ddm run` with a host policy for one host, saved at the end and loaded at the next start
OnlyHostPolicy == UNCHANGED dbVars /\ UNCHANGED budgetVars /\ UNCHANGED runVars
                  /\ UNCHANGED poolVars /\ UNCHANGED <<sched, control, xfer, retry, calc, pair, mrun, names, seq, hpol>>

InitPolicy ==
    /\ IdleBase
    /\ retry = NULL
    /\ calc = NULL
    /\ pair = NULL
    /\ IdleLate
    /\ \E c \in ConfigBounds :
          hostp = [pc |-> "running", restarts |-> 0, cfg_min |-> c[1], cfg_max |-> c[2],
                   policy |-> HostPolicyNew(c[1], c[2]),
                   snapshot |-> to_snapshot(HostPolicyNew(c[1], c[2])), last |-> NoCall]

NextPolicy ==
    \/ RecordHeadResult /\ OnlyHostPolicy
    \/ \E n \in {0, 1, 3, THROUGHPUT_GOOD_BPS} : ChooseSegmentCount(n) /\ OnlyHostPolicy
    \/ \E bytes \in {THROUGHPUT_GOOD_BPS - 1, MiB}, duration \in {0, 1},
          throttle \in {0, 3}, error \in {0, 1} :
          RecordJobOutcome(bytes, duration, throttle, error) /\ OnlyHostPolicy
    \/ SaveToPath /\ OnlyHostPolicy
    \/ \E c \in ConfigBounds : LoadFromPath(c[1], c[2]) /\ OnlyHostPolicy

SpecPolicy == InitPolicy /\ [][NextPolicy]_vars

(***************************************************************************)
(* One job run twice against the same server: by the single-job run        *)
(* (run_one_job) and as a task of the parallel run (run_one_job_shared).   *)
(* The download phase is one step: its outcome is the server's answer to   *)
(* the job's requests, or the abort the result loop observes.              *)
(***************************************************************************)
Modes == {"single", "shared"}

\* the row of the claimed job: never run before, or with metadata stored by a run
ClaimedRows ==
    {[QueuedRow EXCEPT !.state = "running"],
     [state |-> "running", total_size |-> FileSize, etag |-> 1, last_modified |-> 1,
      segment_count |-> JobSegs, completed_bitmap |-> {}]}

\* run_one_job_shared l.36-154: where the run goes after the probe and the checks
\* ("err": it returns Err through `?` / bail! and leaves the row as it is)
run_one_job_shared_head(job, head, force, over, final_exists) ==
    IF head.status = "fail" THEN "err"
    ELSE IF ~head.accept_ranges THEN "err"
    ELSE IF head.content_length = NULL THEN "err"
    ELSE IF ~validate_for_resume(job, head) /\ ~force THEN "err"
    ELSE IF final_exists /\ ~over THEN "err"
    ELSE "segmented"

\* the single-job run up to the download: probe, validation unless force_restart,
\* the single-stream path for a server without ranges and with a known length,
\* else the segmented path
run_one_job_head(job, head, force, over, final_exists) ==
    IF head.status = "fail" THEN "err"
    ELSE IF ~validate_for_resume(job, head) /\ ~force THEN "err"
    ELSE IF ~head.accept_ranges /\ head.content_length # NULL THEN "single_stream"
    ELSE run_one_job_shared_head(job, head, force, over, final_exists)

\* the single-job run surfaces a failure: the job goes to Error
run_one_job_failed(state) == "error"

\* run_one_job_shared l.179-182: after an Err of the download phase the state is
\* Error and the run returns the error
PcAfterDownloadErrFallsBack == "single_stream"
PcAfterDownloadErr == "returned"

NewPairRun(final_exists) ==
    [pc |-> "probe", state |-> "running", file |-> IF final_exists THEN "old" ELSE "none",
     result |-> "none", ranged |-> FALSE, streamed |-> FALSE]

\* the probe and the checks before the download
ProbeAndCheck(m) ==
    /\ pair.runs[m].pc = "probe"
    /\ LET r == pair.runs[m]
           next == IF m = "shared"
                   THEN run_one_job_shared_head(pair.job, pair.head, pair.force_restart,
                                                pair.overwrite, pair.final_exists)
                   ELSE run_one_job_head(pair.job, pair.head, pair.force_restart,
                                         pair.overwrite, pair.final_exists)
       IN pair' = [pair EXCEPT !.runs[m] =
             IF next = "err"
             THEN [r EXCEPT !.pc = "returned", !.result = "err",
                            !.state = IF m = "shared" THEN @ ELSE run_one_job_failed(@)]
             ELSE [r EXCEPT !.pc = next]]

\* run_one_job_shared l.156-182: set_state(Running), execute_download_phase (ranged
\* requests for the incomplete segments), Error after an Err; execute_download_phase
\* l.153-166 and l.196-215: Paused and Ok after JobAborted, Completed with the
\* final file in place when every segment is done
RunSegmented(m) ==
    /\ pair.runs[m].pc = "segmented"
    /\ LET r == [pair.runs[m] EXCEPT !.ranged = TRUE]
       IN pair' = [pair EXCEPT !.runs[m] =
             IF pair.abort
             THEN [r EXCEPT !.pc = "returned", !.state = "paused", !.result = "ok"]
             ELSE IF pair.server = "error"
             THEN [r EXCEPT !.pc = PcAfterDownloadErr, !.state = "error", !.result = "err"]
             ELSE [r EXCEPT !.pc = "returned", !.state = "completed", !.result = "ok",
                            !.file = "server"]]

\* run_single_stream: refuse an existing final file without --overwrite, else
\* set_state(Running) and execute_single_download_phase: one GET streamed into the
\* temp file, sync, finalize, set_state(Completed)
RunSingleStream(m) ==
    /\ pair.runs[m].pc = "single_stream"
    /\ LET r == [pair.runs[m] EXCEPT !.streamed = TRUE]
       IN pair' = [pair EXCEPT !.runs[m] =
             IF (pair.final_exists /\ ~pair.overwrite) \/ pair.server = "error"
             THEN [r EXCEPT !.pc = "returned", !.result = "err",
                            !.state = run_one_job_failed(@)]
             ELSE [r EXCEPT !.pc = "returned", !.state = "completed", !.result = "ok",
                            !.file = "server"]]

InitPair ==
    /\ IdleBase
    /\ retry = NULL
    /\ hostp = NULL
    /\ calc = NULL
    /\ IdleLate
    /\ \E job \in ClaimedRows, head \in HeadResults, fr \in BOOLEAN, ow \in BOOLEAN,
          fe \in BOOLEAN, sv \in {"ok", "error"}, ab \in BOOLEAN :
          pair = [job |-> job, head |-> head, force_restart |-> fr, overwrite |-> ow,
                  final_exists |-> fe, server |-> sv, abort |-> ab,
                  runs |-> [m \in Modes |-> NewPairRun(fe)]]

OnlyPair == UNCHANGED dbVars /\ UNCHANGED budgetVars /\ UNCHANGED runVars
            /\ UNCHANGED poolVars /\ UNCHANGED <<sched, control, xfer, retry, hostp, calc>>
            /\ UNCHANGED lateVars

NextPair ==
    \/ \E m \in Modes : ProbeAndCheck(m) /\ OnlyPair
    \/ \E m \in Modes : RunSegmented(m) /\ OnlyPair
    \/ \E m \in Modes : RunSingleStream(m) /\ OnlyPair

SpecPair == InitPair /\ [][NextPair]_vars

\* the plan of a job: run_one_job_shared l.80-83 and l.111 / l.128 choose the segment
\* count for the probed size and plan with it
AdaptiveCounts == (0..MaxSegmentCount) \cup {16}

InitJobPlan ==
    /\ IdleBase
    /\ retry = NULL
    /\ hostp = NULL
    /\ pair = NULL
    /\ IdleLate
    /\ \E n \in 0..MaxTotalSize, b \in ConfigBounds, a \in AdaptiveCounts :
          calc = [pc |-> "call", total_size |-> n, min_segments |-> b[1],
                  max_segments |-> b[2], adaptive |-> a, segment_count |-> 0, out |-> <<>>]

PlanJob ==
    /\ calc.pc = "call"
    /\ LET k == ClampSegmentCount(calc.total_size, calc.min_segments, calc.max_segments,
                                  calc.adaptive)
       IN calc' = [calc EXCEPT !.pc = "returned", !.segment_count = k,
                               !.out = plan_segments(calc.total_size, k)]

NextJobPlan == PlanJob /\ OnlyCalc

SpecJobPlan == InitJobPlan /\ [][NextJobPlan]_vars

(***************************************************************************)
(* The curl-multi backend (downloader/multi/run.rs): pending is the queue  *)
(* of segments not yet started, active the handles added to the multi (in  *)
(* the order of the Vec), retry_after the failed segments waiting for      *)
(* their back-off (due: the instant has passed)                            *)
(***************************************************************************)
MultiOutcomes == {"ok", "Throttled", "Other"}

RemoveAt(s, i) == SubSeq(s, 1, i - 1) \o SubSeq(s, i + 1, Len(s))

\* refill_active: while there is room, start the next pending segment, else the
\* first retry whose instant has passed, else stop
RECURSIVE refill_active(_, _, _, _)
refill_active(active, pending, retry_after, max_concurrent) ==
    IF Len(active) >= max_concurrent
    THEN [active |-> active, pending |-> pending, retry_after |-> retry_after]
    ELSE IF pending # <<>>
    THEN refill_active(Append(active, [index |-> Head(pending), attempt |-> 1]),
                       Tail(pending), retry_after, max_concurrent)
    ELSE IF \E i \in 1..Len(retry_after) : retry_after[i].due
    THEN LET pos == CHOOSE i \in 1..Len(retry_after) :
                       /\ retry_after[i].due
                       /\ \A j \in 1..(i - 1) : ~retry_after[j].due
             e == retry_after[pos]
         IN refill_active(Append(active, [index |-> e.index, attempt |-> e.attempt]),
                          pending, RemoveAt(retry_after, pos), max_concurrent)
    ELSE [active |-> active, pending |-> pending, retry_after |-> retry_after]

\* run_multi l.117-156: the completed handles, from the highest position down
RECURSIVE ProcessCompleted(_, _, _)
ProcessCompleted(st, pos, outcome) ==
    IF pos = 0 THEN st
    ELSE IF pos \notin DOMAIN outcome THEN ProcessCompleted(st, pos - 1, outcome)
    ELSE LET h == st.active[pos]
             removed == [st EXCEPT !.active = RemoveAt(st.active, pos)]
             d == decide(st.policy, h.attempt, outcome[pos])
             next ==
                IF outcome[pos] = "ok"
                THEN [removed EXCEPT !.bitmap = @ \cup {h.index}]
                ELSE IF d.retry
                THEN [removed EXCEPT !.retry_after =
                         Append(@, [index |-> h.index, attempt |-> h.attempt + 1,
                                    due |-> FALSE])]
                ELSE [removed EXCEPT !.first_error = TRUE]
         IN ProcessCompleted(next, pos - 1, outcome)

\* run_multi l.85-103: nothing to do, or the first handles are added
MultiStart ==
    /\ mrun.pc = "start"
    /\ mrun' = IF mrun.pending = <<>>
               THEN [mrun EXCEPT !.pc = "returned", !.result = "ok"]
               ELSE LET to_add == Min(mrun.max_concurrent, Len(mrun.pending))
                    IN [mrun EXCEPT !.pc = "loop",
                          !.active = [i \in 1..to_add |->
                                         [index |-> mrun.pending[i], attempt |-> 1]],
                          !.pending = SubSeq(mrun.pending, to_add + 1, Len(mrun.pending))]

\* one turn of the loop l.105-166: perform, the completed transfers are processed,
\* refill_active, break when an error was recorded, wait
MultiIterate(outcome) ==
    /\ mrun.pc = "loop"
    /\ mrun.active # <<>>
    /\ DOMAIN outcome \subseteq 1..Len(mrun.active)
    /\ LET st == ProcessCompleted(mrun, Len(mrun.active), outcome)
           r == refill_active(st.active, st.pending, st.retry_after, st.max_concurrent)
       IN mrun' = [st EXCEPT !.active = r.active, !.pending = r.pending,
                             !.retry_after = r.retry_after,
                             !.pc = IF st.first_error THEN "exit" ELSE "loop"]

\* the instant of a waiting retry passes
BackoffElapsed(i) ==
    /\ mrun.pc = "loop"
    /\ i \in 1..Len(mrun.retry_after)
    /\ ~mrun.retry_after[i].due
    /\ mrun' = [mrun EXCEPT !.retry_after[i].due = TRUE]

\* l.105 and l.168-176: the loop ends when no handle is active (or at the break);
\* Err(first_error) or Ok
MultiReturn ==
    /\ \/ mrun.pc = "exit"
       \/ mrun.pc = "loop" /\ mrun.active = <<>>
    /\ mrun' = [mrun EXCEPT !.pc = "returned",
                            !.result = IF mrun.first_error THEN "err" ELSE "ok"]

\* a run of 1..NumThreads incomplete segments with up to NumThreads handles at once
InitMulti ==
    /\ IdleBase
    /\ retry = NULL
    /\ hostp = NULL
    /\ calc = NULL
    /\ pair = NULL
    /\ names = NULL
    /\ seq = NULL
    /\ hpol = NULL
    /\ \E k \in 0..NumThreads, mc \in 1..NumThreads, p \in RetryLoopPolicies :
          mrun = [pc |-> "start", incomplete |-> 0..(k - 1),
                  pending |-> [i \in 1..k |-> i - 1], active |-> <<>>,
                  retry_after |-> <<>>, bitmap |-> {}, first_error |-> FALSE,
                  result |-> "none", max_concurrent |-> mc, policy |-> p]

OnlyMulti == UNCHANGED dbVars /\ UNCHANGED budgetVars /\ UNCHANGED runVars
             /\ UNCHANGED poolVars
             /\ UNCHANGED <<sched, control, xfer, retry, hostp, calc, pair, names, seq, hpol>>

NextMulti ==
    \/ MultiStart /\ OnlyMulti
    \/ \E ps \in SUBSET (1..NumThreads) : \E outcome \in [ps -> MultiOutcomes] :
          MultiIterate(outcome) /\ OnlyMulti
    \/ \E i \in 1..NumThreads : BackoffElapsed(i) /\ OnlyMulti
    \/ MultiReturn /\ OnlyMulti

SpecMulti == InitMulti /\ [][NextMulti]_vars

(***************************************************************************)
(* The host policy across a parallel run (scheduler/parallel.rs and        *)
(* run_scheduler): a policy is the set of the outcomes recorded in it      *)
(* (0: the entries read from the state file, j: the outcome of job j);    *)
(* HostPolicy::new is the empty policy.                                    *)
(* hpol.caller is run_scheduler's host_policy, shared                      *)
(* the policy behind the Arc<Mutex>, saved the state file.                 *)
(***************************************************************************)
FreshPolicy == {}

\* what run_jobs_parallel leaves in *host_policy when it returns early with `?`
PolicyOnError(caller, shared) == caller

\* run_jobs_parallel l.37-44: the caller's policy is moved behind the mutex and
\* a new policy is left in its place
ParBegin ==
    /\ hpol.pc = "call"
    /\ hpol' = [hpol EXCEPT !.pc = "loop", !.shared = hpol.caller, !.caller = FreshPolicy]

\* l.47-73: a slot is free and the claim returns a job: its task is spawned
ParSpawn ==
    /\ hpol.pc = "loop"
    /\ Cardinality(DOMAIN hpol.tasks) < hpol.max_concurrent
    /\ hpol.queued # {}
    /\ LET j == CHOOSE x \in hpol.queued : \A y \in hpol.queued : x <= y
       IN hpol' = [hpol EXCEPT !.queued = @ \ {j},
                               !.tasks = [t \in DOMAIN @ \cup {j} |->
                                             IF t = j THEN "running" ELSE @[t]]]

\* l.48: claim_next_queued_job fails (the database is busy) and `?` returns
ParClaimFails ==
    /\ hpol.pc = "loop"
    /\ Cardinality(DOMAIN hpol.tasks) < hpol.max_concurrent
    /\ hpol' = [hpol EXCEPT !.pc = "returned", !.result = "err", !.tasks = << >>,
                            !.caller = PolicyOnError(hpol.caller, hpol.shared)]

\* a task's download has ended and record_job_outcome is called under the mutex
\* (execute/mod.rs l.172-196)
TaskRecords(j) ==
    /\ hpol.pc = "loop"
    /\ j \in DOMAIN hpol.tasks
    /\ hpol.tasks[j] = "running"
    /\ hpol' = [hpol EXCEPT !.tasks[j] = "recorded", !.shared = @ \cup {j},
                            !.recorded = @ \cup {j}]

\* the task returns: Ok, or an error before or after the outcome was recorded
TaskReturns(j, res) ==
    /\ hpol.pc = "loop"
    /\ j \in DOMAIN hpol.tasks
    /\ hpol.tasks[j] \in {"running", "recorded"}
    /\ res = "ok" => hpol.tasks[j] = "recorded"
    /\ hpol' = [hpol EXCEPT !.tasks[j] = res]

\* l.80-84: join_next returns the result of a finished task; an error returns
\* from run_jobs_parallel and the JoinSet is dropped
ParJoin(j) ==
    /\ hpol.pc = "loop"
    /\ j \in DOMAIN hpol.tasks
    /\ hpol.tasks[j] \in {"ok", "err"}
    /\ \/ Cardinality(DOMAIN hpol.tasks) >= hpol.max_concurrent
       \/ hpol.queued = {}
    /\ IF hpol.tasks[j] = "ok"
       THEN hpol' = [hpol EXCEPT !.run_count = @ + 1,
                                 !.tasks = [t \in DOMAIN @ \ {j} |-> @[t]]]
       ELSE hpol' = [hpol EXCEPT !.run_count = @ + 1, !.pc = "returned",
                                 !.result = "err", !.tasks = << >>,
                                 !.caller = PolicyOnError(hpol.caller, hpol.shared)]

\* l.76-78 and l.87-93: nothing queued and no task left: the policy is restored
ParDone ==
    /\ hpol.pc = "loop"
    /\ hpol.queued = {}
    /\ DOMAIN hpol.tasks = {}
    /\ hpol' = [hpol EXCEPT !.pc = "returned", !.result = "ok", !.caller = hpol.shared]

\* run_scheduler l.77-119: `.await?` leaves on an error, otherwise the policy is
\* saved to the state file
SchedulerSave ==
    /\ hpol.pc = "returned"
    /\ hpol' = [hpol EXCEPT !.pc = "exited",
                            !.saved = IF hpol.result = "ok" THEN hpol.caller ELSE @]

InitHostPolicyRun ==
    /\ IdleBase
    /\ retry = NULL
    /\ hostp = NULL
    /\ calc = NULL
    /\ pair = NULL
    /\ mrun = NULL
    /\ names = NULL
    /\ seq = NULL
    /\ \E loaded \in {FreshPolicy, {0}}, n \in 0..QueueLen,
          mc \in 1..(ParallelJobs + 1) :
          hpol = [pc |-> "call", caller |-> loaded, shared |-> FreshPolicy,
                  saved |-> loaded, loaded |-> loaded, recorded |-> {},
                  queued |-> 1..n, tasks |-> << >>, max_concurrent |-> mc,
                  run_count |-> 0, result |-> "none"]

OnlyHpol == UNCHANGED dbVars /\ UNCHANGED budgetVars /\ UNCHANGED runVars
            /\ UNCHANGED poolVars
            /\ UNCHANGED <<sched, control, xfer, retry, hostp, calc, pair, mrun, names, seq>>

NextHostPolicyRun ==
    \/ ParBegin /\ OnlyHpol
    \/ ParSpawn /\ OnlyHpol
    \/ ParClaimFails /\ OnlyHpol
    \/ \E j \in 1..QueueLen : TaskRecords(j) /\ OnlyHpol
    \/ \E j \in 1..QueueLen, res \in {"ok", "err"} : TaskReturns(j, res) /\ OnlyHpol
    \/ \E j \in 1..QueueLen : ParJoin(j) /\ OnlyHpol
    \/ ParDone /\ OnlyHpol
    \/ SchedulerSave /\ OnlyHpol

SpecHostPolicyRun == InitHostPolicyRun /\ [][NextHostPolicyRun]_vars

(***************************************************************************)
(* File names of the jobs of one download directory (run_one_job_shared    *)
(* l.85-124, run/common.rs resolve_filenames): a name is <<stem, n>>, the  *)
(* candidate derived from the URL for n = 0 and "stem (n)" otherwise; the  *)
(* temp name is the final name with ".part" appended.                      *)
(***************************************************************************)
Candidates == {"a", "b"}
NameJobs == 1..QueueLen
\* no final_filename in the row
NoName == <<"", 0>>

\* list_final_filenames_in_dir(dir, Some(job_id)): the names stored in the other rows
list_final_filenames_in_dir(stored, exclude_id) ==
    {stored[k] : k \in {x \in DOMAIN stored : x # exclude_id /\ stored[x] # NoName}}

\* unique_filename_among: the candidate, or the first "stem (n)" not in `existing`
unique_filename_among(candidate, existing) ==
    LET n == CHOOSE x \in 0..Cardinality(existing) :
                 /\ <<candidate, x>> \notin existing
                 /\ \A y \in 0..(x - 1) : <<candidate, y>> \in existing
    IN <<candidate, n>>

temp_path(final_name) == <<final_name, ".part">>

\* l.85-106: a job without metadata gets a name that is not among the names read
\* from the other rows; a job with metadata keeps its stored name
ResolveNames(j) ==
    /\ names.task[j].pc = "start"
    /\ IF names.stored[j] = NoName
       THEN names' = [names EXCEPT !.task[j] =
                [pc |-> "update",
                 final_name |-> unique_filename_among(names.candidate[j],
                                    list_final_filenames_in_dir(names.stored, j))]]
       ELSE names' = [names EXCEPT !.task[j] =
                [pc |-> "running", final_name |-> names.stored[j]]]

\* l.108-124: update_metadata stores the name in the job's row; the download
\* phase then writes to the temp file of that name
StoreNames(j) ==
    /\ names.task[j].pc = "update"
    /\ names' = [names EXCEPT !.stored[j] = names.task[j].final_name,
                              !.task[j].pc = "running"]

\* the download phase ends: the temp file is renamed to the final name
FinishNamed(j) ==
    /\ names.task[j].pc = "running"
    /\ names' = [names EXCEPT !.task[j].pc = "done"]

\* the queued jobs of one directory: new ones, and jobs whose earlier run stored
\* a name (no two stored names are equal)
InitNames ==
    /\ IdleBase
    /\ retry = NULL
    /\ hostp = NULL
    /\ calc = NULL
    /\ pair = NULL
    /\ mrun = NULL
    /\ seq = NULL
    /\ hpol = NULL
    /\ \E cand \in [NameJobs -> Candidates], old \in SUBSET NameJobs :
          names = [candidate |-> cand,
                   stored |-> [j \in NameJobs |->
                                  IF j \in old THEN <<cand[j], j>> ELSE NoName],
                   task |-> [j \in NameJobs |-> [pc |-> "start", final_name |-> NoName]]]

OnlyNames == UNCHANGED dbVars /\ UNCHANGED budgetVars /\ UNCHANGED runVars
             /\ UNCHANGED poolVars
             /\ UNCHANGED <<sched, control, xfer, retry, hostp, calc, pair, mrun, seq, hpol>>

NextNames ==
    \/ \E j \in NameJobs : ResolveNames(j) /\ OnlyNames
    \/ \E j \in NameJobs : StoreNames(j) /\ OnlyNames
    \/ \E j \in NameJobs : FinishNamed(j) /\ OnlyNames

SpecNames == InitNames /\ [][NextNames]_vars

(***************************************************************************)
(* The sequential scheduler (`ddm run` with one job at a time): every      *)
(* invocation of run_scheduler recovers the Running rows and calls         *)
(* run_next_job until nothing is queued or a run returns an error.         *)
(* seq.fate[j] is what the server of job j does at every attempt.          *)
(***************************************************************************)
SeqJobs == 1..QueueLen
Fates == {"ok", "head_fails", "download_fails"}

\* next_queued_job_id: the smallest id among the Queued rows (0: none)
next_queued_job_id(state) ==
    LET q == {j \in DOMAIN state : state[j] = "queued"}
    IN IF q = {} THEN 0 ELSE CHOOSE j \in q : \A k \in q : j <= k

\* run_one_job: the row after the run. The probe, a missing length, the range
\* check and the validation return Err before the row is touched; the row is set
\* Running right before the download and Completed after the finalize
run_one_job_state(state, fate) ==
    CASE fate = "ok" -> "completed"
      [] fate = "head_fails" -> state
      [] OTHER -> "running"

\* run_scheduler l.15-26: a `ddm run` starts and recovers the Running rows
SeqStart ==
    /\ seq.pc = "off"
    /\ seq' = [seq EXCEPT !.pc = "loop",
                          !.state = [j \in SeqJobs |->
                                        IF @[j] = "running" THEN "queued" ELSE @[j]]]

\* run_next_job l.46-48: the next queued job is looked up; without one the loop of
\* run_scheduler (l.92-108) ends and the process exits
SeqPick ==
    /\ seq.pc = "loop"
    /\ LET j == next_queued_job_id(seq.state)
       IN seq' = IF j = 0 THEN [seq EXCEPT !.pc = "off"]
                 ELSE [seq EXCEPT !.pc = "run", !.cur = j]

\* run_next_job l.49-62 and run_scheduler l.92-108: run_one_job(..).await?; after
\* Ok the loop goes on, an error ends run_next_job, the loop and the process
SeqRun ==
    /\ seq.pc = "run"
    /\ seq' = [seq EXCEPT !.state[seq.cur] = run_one_job_state(@, seq.fate[seq.cur]),
                          !.attempted = @ \cup {seq.cur},
                          !.cur = 0,
                          !.pc = IF seq.fate[seq.cur] = "ok" THEN "loop" ELSE "off"]

InitSeq ==
    /\ IdleBase
    /\ retry = NULL
    /\ hostp = NULL
    /\ calc = NULL
    /\ pair = NULL
    /\ mrun = NULL
    /\ names = NULL
    /\ hpol = NULL
    /\ \E st \in [SeqJobs -> {"queued", "paused", "running"}], f \in [SeqJobs -> Fates] :
          seq = [pc |-> "off", state |-> st, fate |-> f, attempted |-> {}, cur |-> 0]

OnlySeq == UNCHANGED dbVars /\ UNCHANGED budgetVars /\ UNCHANGED runVars
           /\ UNCHANGED poolVars
           /\ UNCHANGED <<sched, control, xfer, retry, hostp, calc, pair, mrun, names, hpol>>

NextSeq ==
    \/ SeqStart /\ OnlySeq
    \/ SeqPick /\ OnlySeq
    \/ SeqRun /\ OnlySeq

\* the scheduler is invoked again and again, and every call it makes returns
SpecSeq ==
    /\ InitSeq /\ [][NextSeq]_vars
    /\ WF_vars(SeqStart /\ OnlySeq)
    /\ WF_vars(SeqPick /\ OnlySeq)
    /\ WF_vars(SeqRun /\ OnlySeq)

(***************************************************************************)
(* C1: claim_next_queued is linearizable: no two claim calls return the    *)
(* same job id, and a returned job is Running once the call has committed. *)
(***************************************************************************)
ClaimLinearizable ==
    /\ \A i \in JobIds : claim_count[i] <= 1
    /\ \A i \in JobIds : claim_count[i] = 1 => jobs[i].state = "running"

\* two connections raced for the same queued row: one got it, the other got an error
ClaimRaceWitness ==
    \E c, d \in Conns :
        /\ c # d
        /\ tx[c].result = "ok_some" /\ claim_count[tx[c].sel] = 1
        /\ tx[d].result = "err" /\ tx[d].sel = tx[c].sel

(***************************************************************************)
(* C2: the segment transfers active across all running jobs never exceed   *)
(* max_total_connections.                                                  *)
(***************************************************************************)
RECURSIVE SumActive(_)
SumActive(S) ==
    IF S = {} THEN 0
    ELSE LET j == CHOOSE x \in S : TRUE
         IN  bjob[j].active + SumActive(S \ {j})

TotalTransfersWithinBudget == SumActive(BJobs) <= cfg_total

(***************************************************************************)
(* C3: in_use stays within [0, max_total] under every interleaving of      *)
(* reserve and release.                                                    *)
(***************************************************************************)
InUseWithinBounds == in_use >= 0 /\ in_use <= max_total

\* a reserve lost its compare-exchange to another job and the budget is full
BudgetContendedWitness ==
    \E j, k \in BJobs :
        /\ j # k
        /\ in_use = max_total
        /\ bjob[j].pc = "run" /\ bjob[j].reserved > 0
        /\ bjob[k].pc = "reserve_cas" /\ bjob[k].current # in_use

(***************************************************************************)
(* C4: if the abort token becomes true while run_concurrent still waits    *)
(* for results of incomplete segments, run_concurrent returns JobAborted.  *)
(***************************************************************************)
AbortSurfacesJobAborted ==
    (cons[1].pc = "returned" /\ abort_seen[1]) => ex[1].status = "aborted"

(***************************************************************************)
(* C5: a run that ended because of the external abort (the result loop     *)
(* left on the abort check, or because the workers left on the token) has  *)
(* set the job Paused and returned Ok.                                     *)
(***************************************************************************)
AbortEndsPausedOk ==
    (run[1].pc = "done" /\ abort_seen[1] /\ cons[1].first_error \in {"aborted", "closed"})
        => (jobs[run[1].id].state = "paused" /\ run[1].result = "ok")

(***************************************************************************)
(* C6: after an aborted run has set the job Paused, the persisted bitmap   *)
(* has every bit the executor recorded (which include the bits set before  *)
(* the run).                                                               *)
(***************************************************************************)
PausedBitmapIntact ==
    (run[1].pc = "done" /\ ex[1].status = "aborted" /\ jobs[run[1].id].state = "paused")
        => (ex[1].bitmap \subseteq jobs[run[1].id].completed_bitmap)

(***************************************************************************)
(* C7: whenever a run of an existing job returns an error (no abort token  *)
(* is involved in this specification), the job's persisted state is Error  *)
(* at that moment.                                                         *)
(***************************************************************************)
FailureSetsError ==
    [][\A r \in Runners :
          (run[r].pc # "done" /\ run'[r].pc = "done" /\ run'[r].result = "err"
              /\ jobs'[run'[r].id].state # "absent")
          => jobs'[run'[r].id].state = "error"]_vars

(***************************************************************************)
(* C8: every change of a job's persisted state is one of the transitions   *)
(* of the state table or the startup recovery (the insertion and the       *)
(* removal of the row aside); Completed never changes.                     *)
(***************************************************************************)
AllowedTransitions ==
    {<<"queued", "running">>, <<"queued", "paused">>, <<"running", "paused">>,
     <<"running", "completed">>, <<"running", "error">>,
     <<"paused", "queued">>, <<"error", "queued">>, <<"running", "queued">>}

TransitionsFollowTable ==
    [][\A i \in JobIds :
          (jobs[i].state # "absent" /\ jobs'[i].state # "absent"
              /\ jobs'[i].state # jobs[i].state)
          => <<jobs[i].state, jobs'[i].state>> \in AllowedTransitions]_vars

(***************************************************************************)
(* C9: a job whose persisted state is Completed has its final file and a   *)
(* persisted bitmap with every bit of its segment count set.               *)
(***************************************************************************)
CompletedHasFileAndBitmap ==
    \A i \in JobIds :
        jobs[i].state = "completed"
            => (fs[i].final /\ all_completed(jobs[i].completed_bitmap, jobs[i].segment_count))

(***************************************************************************)
(* C10: within a run, on the segmented and on the single-stream path, the  *)
(* temp file is synced before it is renamed, and it is renamed before the  *)
(* state is set to Completed.                                              *)
(***************************************************************************)
CompletionOrder == <<"sync", "finalize", "completed">>

SyncBeforeFinalizeBeforeCompleted ==
    \A r \in Runners :
        /\ Len(run[r].log) <= Len(CompletionOrder)
        /\ \A k \in 1..Len(run[r].log) : run[r].log[k] = CompletionOrder[k]

\* a segmented run that downloaded every segment has synced, renamed and completed
SegmentedCompletionWitness ==
    /\ run[1].log = CompletionOrder
    /\ jobs[1].segment_count > 0
    /\ cons[1].pc = "returned"
    /\ jobs[1].state = "completed"
    /\ fs[1].final

(***************************************************************************)
(* C11: a scheduler start resets every row left Running by a crash to      *)
(* Queued and returns their number, before it schedules any job: while the *)
(* process schedules, no row is still Running from before the crash.       *)
(***************************************************************************)
RecoveryAtStart ==
    /\ [](sched.pc \in {"fill", "wait", "ok", "err"} => sched.stale = {})
    /\ [](sched.pc = "start" => \A r \in Runners : run[r].pc = "idle")
    /\ [][sched.pc = "start" =>
            /\ sched'.recovered = Cardinality(sched.stale)
            /\ \A i \in sched.stale : jobs'[i].state = "queued"]_vars

\* the process was killed while a job was Running; the next start has reset the row
RecoveredAfterCrashWitness ==
    /\ sched.crashes = 1
    /\ sched.pc = "fill"
    /\ sched.recovered >= 1
    /\ \E i \in JobIds : jobs[i].state = "queued" /\ jobs[i].total_size # NULL

(***************************************************************************)
(* C12: the parallel run returns only when no job is queued and every task *)
(* it spawned has finished and been joined, and run_count is the number of *)
(* jobs it ran.                                                            *)
(***************************************************************************)
ParallelReturnsWhenDrained ==
    [][(sched.pc \notin {"ok", "err"} /\ sched'.pc \in {"ok", "err"}) =>
          /\ QueuedIds(jobs') = {}
          /\ \A r \in Runners : run'[r].pc = "idle"
          /\ sched'.run_count = sched'.spawned]_vars

(***************************************************************************)
(* C13: the reservation a job took from the global budget is given back    *)
(* exactly once when its executor exits, by return or by cancellation of   *)
(* the task: the release subtracts what reserve granted, an ended job      *)
(* releases nothing more, and once all jobs have ended in_use is 0.        *)
(***************************************************************************)
ReservationReleasedOnce ==
    /\ []((\A j \in BJobs : bjob[j].pc \in {"idle", "done"}) => in_use = 0)
    /\ [][\A j \in BJobs :
            /\ (bjob[j].pc = "release_sub" /\ bjob'[j].pc = "done")
                   => in_use' = in_use - bjob[j].reserved
            /\ bjob[j].pc = "done" => bjob'[j] = bjob[j]]_vars

\* one job has ended and released; another, cancelled in mid-transfer, is about to
\* give back the last reservation
CancelledReleaseWitness ==
    \E j, k \in BJobs :
        /\ bjob[j].pc = "done"
        /\ bjob[k].pc = "release_sub" /\ bjob[k].active > 0
        /\ bjob[k].reserved > 0 /\ in_use = bjob[k].reserved

(***************************************************************************)
(* C14: a job is in the control registry from the start of its run to its  *)
(* exit; request_abort(id) made while the executor of job id runs sets the *)
(* token that executor reads; a request for an id that is not registered   *)
(* changes no token, and a later run starts with a fresh, unset token.     *)
(***************************************************************************)
RegistryTracksRunningJob ==
    /\ [](\A r \in Runners : run[r].pc = "x_wait" => control.jobs[run[r].id] = r)
    /\ [](\A i \in JobIds : (\A r \in Runners : run[r].id # i) => control.jobs[i] = 0)
    /\ [][control'.requests # control.requests =>
            /\ \A r \in Runners :
                   (run[r].id = control'.last /\ run[r].pc = "x_wait") => abort'[r]
            /\ control.jobs[control'.last] = 0 => abort' = abort]_vars
    /\ [][\A r \in Runners : (~control.held[r] /\ control'.held[r]) => ~abort'[r]]_vars

(***************************************************************************)
(* C15: running a job whose state is Completed is a no-op: when the run    *)
(* has ended the job is still Completed and the final file has the bytes   *)
(* it had before.                                                          *)
(***************************************************************************)
RerunOfCompletedIsNoOp ==
    run[1].pc = "done" =>
        /\ jobs[1].state = "completed"
        /\ fs[1].final
        /\ fs[1].final_data = 0..(jobs[1].segment_count - 1)

(***************************************************************************)
(* C18: when a run sets a job Completed, the final file exists and, for    *)
(* every planned segment, holds the server's bytes of that range.          *)
(***************************************************************************)
CompletedFileHasServerBytes ==
    [][\A i \in JobIds :
          (jobs'[i].state = "completed" /\ jobs[i].state # "completed")
             => (fs'[i].final /\ 0..(jobs'[i].segment_count - 1) \subseteq fs'[i].final_data)]_vars

(***************************************************************************)
(* C17: a run whose job has stored validators goes on past the probe with  *)
(* an ETag, Last-Modified or size that differs from the stored one (one    *)
(* side missing counts as differing) only under force_restart; the run     *)
(* that is refused issues no segment request and leaves the row (bitmap    *)
(* and metadata) and the .part file as they were.                          *)
(***************************************************************************)
RefusesChangedValidators ==
    /\ [][\A r \in Runners :
            (run[r].pc = "probe" /\ run'[r].pc \notin {"probe", "done"}
               /\ (run[r].job.total_size # NULL \/ run[r].job.etag # NULL
                      \/ run[r].job.last_modified # NULL)
               /\ (run[r].job.etag # run'[r].head.etag
                      \/ run[r].job.last_modified # run'[r].head.last_modified
                      \/ run[r].job.total_size # run'[r].head.content_length))
            => force_restart]_vars
    /\ [][\A r \in Runners :
            (run[r].pc = "probe" /\ run'[r].pc = "done")
            => (jobs' = jobs /\ fs' = fs /\ work' = work /\ worker' = worker)]_vars
    /\ [](\A r \in Runners, w \in Threads :
            worker[r][w] # IdleWorker => run[r].pc \notin {"get_job", "probe"})

\* without force_restart the resumed run was refused at the probe: it returned an
\* error before the download phase; bitmap and .part file are those of the earlier run
ResumeRefusedWitness ==
    /\ ~force_restart
    /\ run[1].pc = "done" /\ run[1].result = "err"
    /\ jobs[1].state = "running"
    /\ jobs[1].completed_bitmap = {0}
    /\ fs[1].temp /\ fs[1].temp_data = {0}
    /\ \A w \in Threads : worker[1][w] = IdleWorker

(***************************************************************************)
(* C16: when a paused job is run again with unchanged validators, a range  *)
(* request is issued only for a segment whose bit is clear in the          *)
(* persisted bitmap, and never for a segment that an earlier run had       *)
(* completed (written in full to the .part file).                          *)
(***************************************************************************)
ResumeFetchesOnlyMissing ==
    \A w \in Threads :
        worker[2][w].pc = "busy" =>
            /\ worker[2][w].seg \notin run[2].job.completed_bitmap
            /\ worker[2][w].seg \notin fs[run[2].id].temp_data

(***************************************************************************)
(* C19: the write_at calls of concurrent workers touch pairwise disjoint   *)
(* byte ranges: every byte written for segment i lies in [start_i, end_i). *)
(***************************************************************************)
WritesWithinSegment ==
    /\ \A w \in Threads :
          xfer[w].writes \subseteq (SegPlan[w].start)..(SegPlan[w].end - 1)
    /\ \A v, w \in Threads : v # w => xfer[v].writes \cap xfer[w].writes = {}

(***************************************************************************)
(* C20: a response to the range request with status 200, or another 2xx    *)
(* that is not 206, makes the segment fail with InvalidRangeResponse once  *)
(* the response has been delivered (a broken connection is reported as the *)
(* transport error it is), and no byte of it is ever written.              *)
(***************************************************************************)
Non206IsInvalidRangeResponse ==
    \A w \in Threads :
        (xfer[w].status \in 200..299 /\ xfer[w].status # 206) =>
            /\ xfer[w].writes = {}
            /\ xfer[w].bytes_written = 0
            /\ xfer[w].result \in {"none", "InvalidRangeResponse", "Curl"}
            /\ (xfer[w].result = "Curl" => xfer[w].body_left = 0 /\ xfer[w].check = "none")
            /\ (xfer[w].pc = "done" /\ xfer[w].check = "err")
                   => xfer[w].result = "InvalidRangeResponse"

\* a 200 with a body was refused at the first chunk of the body
FullBodyRefusedWitness ==
    \E w \in Threads :
        /\ xfer[w].pc = "done"
        /\ xfer[w].status = 200
        /\ xfer[w].body_left > 0
        /\ xfer[w].check = "err"
        /\ xfer[w].result = "InvalidRangeResponse"
        /\ xfer[w].writes = {}

(***************************************************************************)
(* C30: for every total size N > 0 and segment count k > 0, plan(N, k) has *)
(* k segments that are ordered and contiguous from offset 0, their lengths *)
(* sum to N, and the sizes differ by at most 1, the first N mod k segments *)
(* being one byte larger.                                                  *)
(***************************************************************************)
RECURSIVE SumOfLengths(_)
SumOfLengths(plan) ==
    IF plan = <<>> THEN 0 ELSE SegLen(Head(plan)) + SumOfLengths(Tail(plan))

PlanIsEvenPartition ==
    (calc.pc = "returned" /\ calc.total_size > 0 /\ calc.segment_count > 0) =>
        LET n == calc.total_size
            k == calc.segment_count
            out == calc.out
        IN /\ Len(out) = k
           /\ out[1].start = 0
           /\ out[k].end = n
           /\ \A i \in 1..k : out[i].start <= out[i].end
           /\ \A i \in 1..(k - 1) : out[i + 1].start = out[i].end
           /\ SumOfLengths(out) = n
           /\ \A i, j \in 1..k : SegLen(out[i]) - SegLen(out[j]) <= 1
           /\ \A i \in 1..k :
                 SegLen(out[i]) = (n \div k) + (IF i <= n % k THEN 1 ELSE 0)

\* a plan with a remainder: some segments are one byte larger than the others
PlanWithRemainderWitness ==
    /\ calc.pc = "returned"
    /\ calc.segment_count > 1
    /\ calc.total_size > calc.segment_count
    /\ calc.total_size % calc.segment_count # 0
    /\ Len(calc.out) = calc.segment_count

(***************************************************************************)
(* C27 as stated: after a run with no throttle and no error events and a   *)
(* throughput of at least 1 MiB/s, a limit below 8 becomes 8, a limit      *)
(* below 16 becomes 16, and any other limit becomes max(cap, 16).          *)
(***************************************************************************)
GoodRunRecorded ==
    /\ hostp.pc = "running"
    /\ hostp.last.op = "outcome"
    /\ hostp.last.a = 0
    /\ hostp.last.b >= MiB

StepsUpBySchedule ==
    GoodRunRecorded =>
        hostp.policy.entry.adaptive_segment_limit =
            IF hostp.last.before < 8 THEN 8
            ELSE IF hostp.last.before < 16 THEN 16
            ELSE Max(hostp.last.out, 16)

(***************************************************************************)
(* C27 amended: after such a run the limit becomes the next step of the    *)
(* schedule (8 for a limit below 8, else 16) capped by the host's          *)
(* recommended maximum, which never exceeds max_segments.                  *)
(***************************************************************************)
StepsUpCappedByRecommended ==
    GoodRunRecorded =>
        /\ hostp.last.out = recommended_max_segments(hostp.policy)
        /\ hostp.last.out <= hostp.policy.max_segments
        /\ hostp.policy.entry.adaptive_segment_limit =
              Min(IF hostp.last.before < 8 THEN 8 ELSE 16, hostp.last.out)

\* a good run has raised the limit of the host
SteppedUpWitness ==
    /\ GoodRunRecorded
    /\ hostp.last.before < 16
    /\ hostp.policy.entry.adaptive_segment_limit > hostp.last.before

(***************************************************************************)
(* C28 as stated: the segment count chosen for a job equals the host's     *)
(* adaptive limit (4 on a new host) clamped into [min_segments,            *)
(* max_segments] and capped by the recommended maximum: max_segments       *)
(* halved once per group of three recorded throttling events, at most      *)
(* three times and never below min_segments.                               *)
(***************************************************************************)
ClaimedRecommendedMax ==
    HalveSteps(hostp.cfg_max,
               IF hostp.policy.entry.throttled_events >= 9 THEN 3
               ELSE hostp.policy.entry.throttled_events \div 3,
               hostp.cfg_min)

ClaimedSegmentCount ==
    LET limit == IF hostp.policy.entry.present
                 THEN hostp.policy.entry.adaptive_segment_limit ELSE 4
        clamped == IF limit < hostp.cfg_min THEN hostp.cfg_min
                   ELSE IF limit > hostp.cfg_max THEN hostp.cfg_max ELSE limit
    IN  Min(clamped, ClaimedRecommendedMax)

SegmentCountChosen == hostp.pc = "running" /\ hostp.last.op = "choose"

ChosenCountIsClampedLimit ==
    SegmentCountChosen => hostp.last.out = ClaimedSegmentCount

(***************************************************************************)
(* C28 amended: for config bounds with 1 <= min_segments <= max_segments   *)
(* the chosen segment count is that value, and for a file of known size    *)
(* (total_size > 0) never more than total_size.                            *)
(***************************************************************************)
ChosenCountIsClampedLimitWithinSize ==
    (SegmentCountChosen /\ 1 <= hostp.cfg_min /\ hostp.cfg_min <= hostp.cfg_max) =>
        hostp.last.out = IF hostp.last.a > 0 /\ hostp.last.a < ClaimedSegmentCount
                         THEN hostp.last.a ELSE ClaimedSegmentCount

\* a count chosen for a host whose recommended maximum has been halved
ChosenAfterThrottlingWitness ==
    /\ SegmentCountChosen
    /\ 1 <= hostp.cfg_min /\ hostp.cfg_min <= hostp.cfg_max
    /\ hostp.policy.entry.throttled_events >= 3
    /\ hostp.last.a > hostp.cfg_max
    /\ hostp.last.out = ClaimedRecommendedMax
    /\ hostp.last.out < hostp.cfg_max

(***************************************************************************)
(* C29: a policy saved as a snapshot and restored with the bounds of the   *)
(* current config has every entry's adaptive limit within the restored     *)
(* policy's [min, max], and these bounds are the current config's (made    *)
(* consistent: min at least 1, max at least min), never the stored ones.   *)
(***************************************************************************)
PolicyRestored == hostp.pc = "running" /\ hostp.last.op = "load"

RestoredLimitsWithinConfigBounds ==
    PolicyRestored =>
        LET min == IF hostp.cfg_min < 1 THEN 1 ELSE hostp.cfg_min
            max == IF hostp.cfg_max < min THEN min ELSE hostp.cfg_max
        IN /\ hostp.policy.min_segments = min
           /\ hostp.policy.max_segments = max
           /\ hostp.policy.entry.present = hostp.snapshot.entry.present
           /\ hostp.policy.entry.present =>
                 /\ hostp.policy.entry.adaptive_segment_limit >= min
                 /\ hostp.policy.entry.adaptive_segment_limit <= max
                 /\ hostp.policy.entry.throttled_events
                      = hostp.snapshot.entry.throttled_events

\* a restore under bounds that exclude the stored limit and differ from the stored bounds
RestoredUnderNewBoundsWitness ==
    /\ PolicyRestored
    /\ hostp.policy.entry.present
    /\ hostp.snapshot.max_segments # hostp.policy.max_segments
    /\ hostp.snapshot.entry.adaptive_segment_limit > hostp.policy.max_segments
    /\ hostp.cfg_min >= 1
    /\ hostp.cfg_min <= hostp.cfg_max

(***************************************************************************)
(* C25: for every 1-based attempt number n for which a retry is granted    *)
(* and every retryable error kind, the back-off delay returned by the      *)
(* policy equals min(base_delay * 2^(n-1), max_delay).                     *)
(***************************************************************************)
BackoffIsExponentialCapped ==
    (calc.pc = "returned" /\ calc.out.retry) =>
        LET raw == calc.policy.base_delay * Pow2(calc.attempt - 1)
        IN  calc.out.delay = IF raw < calc.policy.max_delay THEN raw
                             ELSE calc.policy.max_delay

(***************************************************************************)
(* C24: for any retry policy and any sequence of attempt outcomes a        *)
(* segment is attempted at most max_attempts times in total (the first     *)
(* attempt included), an error classified Other is never retried, and the  *)
(* retry loop always terminates.                                           *)
(***************************************************************************)
AttemptsWithinMaxAndLoopEnds ==
    /\ [](retry.calls <= retry.policy.max_attempts)
    /\ [](retry.pc = "sleep" => retry.kind # "Other")
    /\ <>(retry.pc \in {"completed", "failed"})

(***************************************************************************)
(* C21: when a server that honoured the range request closes the           *)
(* connection before the whole segment has arrived, the attempt ends as    *)
(* PartialTransfer and, while attempts remain, the segment is retried from *)
(* its own offset; once the run has completed, the bytes written make up   *)
(* exactly the segment's range.                                            *)
(***************************************************************************)
ClosedMidSegment(t) ==
    /\ t.pc = "done"
    /\ t.status = 206
    /\ t.crange = "exact"
    /\ ~t.failed
    /\ t.curl # "operation_timedout"
    /\ t.bytes_written < SegLen(SegPlan[RetryWorker])

MidSegmentCloseIsRetriedPartialTransfer ==
    LET t == xfer[RetryWorker]
        seg == SegPlan[RetryWorker]
    IN /\ (retry.pc \in {"sleep", "sent_err", "err", "failed"} /\ ClosedMidSegment(t))
            => /\ t.result = "PartialTransfer"
               /\ (retry.attempt < retry.policy.max_attempts => retry.pc = "sleep")
       /\ retry.pc = "completed" => t.writes = seg.start..(seg.end - 1)

(***************************************************************************)
(* C26: when a run has completed, its throttle_events and error_events     *)
(* count every throttling response (429/503) and every other 5xx response  *)
(* or transport failure that an attempt of the run met, those followed by  *)
(* a successful retry included, and these counts are what the host's       *)
(* adaptive policy was given.                                              *)
(***************************************************************************)
TallyCountsEveryFailureMet ==
    retry.pc = "completed"
        => /\ retry.throttle_events = retry.met_throttle
           /\ retry.error_events = retry.met_error
           /\ retry.recorded
           /\ retry.recorded_throttle = retry.met_throttle
           /\ retry.recorded_error = retry.met_error

(***************************************************************************)
(* C22: a job run as a task of the parallel scheduler ends like the same   *)
(* job run by the single-job run against the same server: once both runs   *)
(* have returned, the job is in the same state and the final file has the  *)
(* same contents.                                                          *)
(***************************************************************************)
ParallelTaskEndsLikeSingleRun ==
    (\A m \in Modes : pair.runs[m].pc = "returned")
        => /\ pair.runs["shared"].state = pair.runs["single"].state
           /\ pair.runs["shared"].file = pair.runs["single"].file

PlannedSegmentsNonEmpty ==
    calc.pc = "returned" =>
        /\ \A i \in 1..Len(calc.out) : calc.out[i].start < calc.out[i].end
        /\ calc.total_size = 1 =>
              /\ Len(calc.out) = 1
              /\ calc.out[1] = [start |-> 0, end |-> 1]

OneByteFourSegmentsWitness ==
    /\ calc.pc = "returned"
    /\ calc.total_size = 1
    /\ ClampSegmentCountNoSize(calc.total_size, calc.min_segments, calc.max_segments,
                               calc.adaptive) = 4
    /\ Len(calc.out) = 1

(***************************************************************************)
(* C32: when the curl-multi backend returns Ok, the bit of every segment   *)
(* that was incomplete at the start is set and no segment is left waiting  *)
(* for a retry: a segment put back with a back-off is retried, and the     *)
(* backend returns only when all are done or an error was recorded.        *)
(***************************************************************************)
MultiOkMeansAllDone ==
    (mrun.pc = "returned" /\ mrun.result = "ok")
        => /\ mrun.incomplete \subseteq mrun.bitmap
           /\ mrun.retry_after = <<>>

(***************************************************************************)
(* C33: after the result loop has handled a failure of kind Other, no      *)
(* worker starts a segment; as long as the loop runs, the results it still *)
(* expects are exactly the queued segments, the transfers in flight and    *)
(* the results sent but not received (the drained entries are taken off    *)
(* the count, no more and no less); when the loop has ended without the    *)
(* external abort, no transfer is in flight and no result is unread; the   *)
(* run returns the segment's error; and once a segment has failed with     *)
(* Other the run does return.                                              *)
(***************************************************************************)
OtherHandled == abort_requested[1]
InFlight == Cardinality({w \in Threads : worker[1][w].pc = "busy"})
ExpectedResultsAccounted ==
    cons[1].pc = "loop" => cons[1].to_receive = Len(work[1]) + InFlight + Len(results[1])
LoopEndsAfterLastResult ==
    (OtherHandled /\ ~abort[1] /\ cons[1].pc \in {"join", "returned"})
        => InFlight = 0 /\ results[1] = <<>> /\ work[1] = <<>>
OtherErrorReturned ==
    (OtherHandled /\ cons[1].pc = "returned")
        => cons[1].first_error = "segment" /\ ex[1].status = "err"
NoSegmentStartedAfterOther ==
    [][OtherHandled => \A w \in Threads :
          worker'[1][w].pc = "busy" => worker[1][w].pc = "busy"]_vars
PolicyRestoredOnReturn ==
    hpol.pc = "returned"
        => /\ hpol.caller = hpol.shared
           /\ hpol.loaded \cup hpol.recorded \subseteq hpol.caller

(***************************************************************************)
(* C35: no job is executed by two runs at once: at no time do two runs     *)
(* have an executor at work (worker threads writing the .part file) for    *)
(* the same job id, whatever the interleaving of scheduler tasks, a second *)
(* scheduler start with its recovery, and resume/pause commands.           *)
(***************************************************************************)
NoJobExecutedTwiceAtOnce ==
    \A r1, r2 \in Runners :
        (r1 # r2 /\ ex[r1].status = "running" /\ ex[r2].status = "running")
            => run[r1].id # run[r2].id

(***************************************************************************)
(* C36: when the run of a job has returned Ok, the job's persisted state   *)
(* is Completed or Paused, never Running or Queued; this includes the run  *)
(* for an empty file and a run whose executor returned with segments       *)
(* still incomplete.                                                       *)
(***************************************************************************)
OkRunEndsCompletedOrPaused ==
    \A r \in Runners :
        (run[r].pc = "done" /\ run[r].result = "ok")
            => jobs[run[r].id].state \in {"completed", "paused"}

(***************************************************************************)
(* C37: at every moment, every bit set in the bitmap stored in the job's   *)
(* row stands for a segment whose bytes are all written and synced to      *)
(* disk, in the temp file or in the final file after the rename: a crash   *)
(* or power loss at that moment loses no data of a segment marked done.    *)
(***************************************************************************)
PersistedBitsAreDurable ==
    \A i \in 0..(ExecSegs - 1) :
        is_completed(from_bytes(jobs[1].completed_bitmap, jobs[1].segment_count), i)
            => \/ fs[1].temp /\ i \in fs[1].temp_data /\ fs[1].temp_durable
               \/ fs[1].final /\ i \in fs[1].final_data

(***************************************************************************)
(* C38: two jobs of the same directory that are running at the same time   *)
(* never have the same final name, hence never the same temp (.part) name, *)
(* whatever the interleaving of their name resolution and their metadata   *)
(* updates.                                                                *)
(***************************************************************************)
RunningJobsHaveDistinctNames ==
    \A j, k \in NameJobs :
        (j # k /\ names.task[j].pc = "running" /\ names.task[k].pc = "running")
            => /\ names.task[j].final_name # names.task[k].final_name
               /\ temp_path(names.task[j].final_name) # temp_path(names.task[k].final_name)

(***************************************************************************)
(* C39: with the sequential scheduler invoked again and again, every job   *)
(* that is Queued is eventually run, even when a job with a smaller id     *)
(* fails at every attempt.                                                 *)
(***************************************************************************)
EveryQueuedJobIsEventuallyRun ==
    \A j \in SeqJobs : (seq.state[j] = "queued") ~> (j \in seq.attempted)

(***************************************************************************)
(* C40: after any sequence of recorded job outcomes, under config bounds   *)
(* with min_segments <= max_segments, the adaptive segment limit of the    *)
(* host's entry lies within the policy's [min_segments, max_segments].     *)
(***************************************************************************)
AdaptiveLimitWithinBounds ==
    (hostp.pc = "running" /\ hostp.cfg_min <= hostp.cfg_max /\ hostp.policy.entry.present)
        => /\ hostp.policy.min_segments <= hostp.policy.entry.adaptive_segment_limit
           /\ hostp.policy.entry.adaptive_segment_limit <= hostp.policy.max_segments

================================================================================
